---- MODULE Spec2Model ----
(***************************************************************************)
(* Dual-backend LRU response cache of Axiong_LangChain:                    *)
(*   cache_module/lru_memory_cache.py  LRUInMemoryCache                    *)
(*   cache_module/lru_sqlite_cache.py  LRUSQLiteCache                      *)
(*   cache_module/cache_manager.py     CacheManager (singleton facade)     *)
(*                                                                         *)
(* Spec      one caller: the manager is constructed, then the installed    *)
(*           backend is driven through its public operations.              *)
(* SpecNew   several threads race through CacheManager.__new__.            *)
(* SpecConc  several threads run in-memory operations under the RLock.     *)
(* SpecMgr   one caller: requests and the manager's clear_cache,           *)
(*           get_cache_stats and health_check.                             *)
(* SpecStore one durable store with storage faults and process restarts.   *)
(* SpecMem   one caller on the in-memory backend, with time and expiry.    *)
(* SpecFair  several threads on the in-memory backend, scheduled fairly.   *)
(* SpecDb    several threads on the durable backend's one connection.      *)
(* SpecClear one caller: requests, clear_cache and restarts on the durable *)
(*           backend.                                                      *)
(***************************************************************************)
EXTENDS Integers, Sequences, FiniteSets, TLC

----------------------------------------------------------------------------
(* Bounds of the model *)

MaxTime == 2
MaxOps == 4
MaxConcOps == 2

----------------------------------------------------------------------------
(* Domains *)

\* cache keys are (prompt, llm_string) pairs; two prompts share a fingerprint
\* and one prompt occurs under two fingerprints
Keys == { <<"p1", "m1">>, <<"p2", "m1">>, <<"p1", "m2">> }

Texts == { "a", "b" }

\* ttl = None
NoneTTL == -1

\* a langchain Generation carries text and generation_info; a plain str has
\* no attribute text
Generation(t, g) == [type |-> "Generation", text |-> t, generation_info |-> g]

PlainStr(s) == [type |-> "str", text |-> s, generation_info |-> "None"]

\* one Generation without and one with generation_info
Generations == { Generation("a", "None"), Generation("b", "info") }

\* the only str the repository passes to an in-memory update
HealthValue == PlainStr("test_value")

\* Optional[...] results: <<>> is None, <<x>> is x
None == << >>

Some(x) == << x >>

Threads == { 1, 2 }

CacheTypes == { "sqlite", "memory" }

\* Config.CACHE_MAX_SIZE: one value the constructors clamp and one that
\* holds two of the three keys
ConfigSizes == { 0, 2 }

\* the arguments of resize: clamped, shrinking or keeping, growing
ResizeSizes == { 0, 2, 3 }

ConfigTTLs == { NoneTTL, 1 }

\* str(e) of the errors the durable constructor can raise
ConnectError == << "unable to open database file" >>

SetupError == << "init_lru_db_failed: ", "disk I/O error" >>

InitErrors == { ConnectError, SetupError }

----------------------------------------------------------------------------
VARIABLES
    Config,      \* config_module.Config: ENABLE_CACHE, CACHE_TYPE, CACHE_MAX_SIZE, CACHE_TTL
    instance,    \* CacheManager._instance: 0 is None, else an index into objects
    objects,     \* the CacheManager objects allocated so far
    llm_cache,   \* langchain.llm_cache: "None", "memory" or "sqlite"
    built,       \* number of backend objects constructed so far
    cache,       \* LRUInMemoryCache._cache, least recently used first
    max_size,    \* max_size of the installed backend
    ttl,         \* LRUInMemoryCache.ttl
    stats,       \* LRUInMemoryCache._stats
    rows,        \* the rows of table lru_cache
    trigger_max, \* the bound written into trigger_lru_eviction
    path,        \* what is at Config.CACHE_PATH: "absent", "live" (the database the
                 \* rows belong to) or "empty" (another file without tables)
    issued,      \* the largest id a row of the store has been given so far
    now,         \* the clock, in seconds
    last,        \* the call that completed last and what it returned
    touched,     \* keys in the order of their last successful lookup or insert since the last clear
    nops,        \* number of backend calls made
    pc,          \* per thread: position in the running call
    local,       \* per thread: the locals of the running call
    lock,        \* LRUInMemoryCache._lock (RLock): owner and count
    lin          \* per thread: the in-memory backend as it was when the thread took the lock

vars == << Config, instance, objects, llm_cache, built, cache, max_size, ttl,
           stats, rows, trigger_max, path, issued, now, last, touched, nops, pc,
           local, lock, lin >>

mgrVars == << instance, objects, llm_cache, built >>

memVars == << cache, max_size, ttl, stats >>

sqlVars == << rows, trigger_max >>

storeVars == << path, issued >>

thrVars == << pc, local, lock, lin >>

----------------------------------------------------------------------------
(* Sequence helpers *)

SeqKeys(c) == [ i \in 1..Len(c) |-> c[i].key ]

KeySet(c) == { c[i].key : i \in 1..Len(c) }

HasKey(c, k) == k \in KeySet(c)

EntryOf(c, k) == c[CHOOSE i \in 1..Len(c) : c[i].key = k]

\* del self._cache[key]
DelKey(c, k) == SelectSeq(c, LAMBDA e : e.key # k)

\* remove k from a sequence of keys and append it
Touch(s, k) == Append(SelectSeq(s, LAMBDA x : x # k), k)

Max(a, b) == IF a >= b THEN a ELSE b

----------------------------------------------------------------------------
(* LRUInMemoryCache *)

ZeroStats == [hits |-> 0, misses |-> 0, evictions |-> 0, expired |-> 0]

\* max(max_size, 1) of __init__ and resize
clamp_size(n) == Max(n, 1)

\* __init__
MemInit(size, t) ==
    [cache |-> << >>, max_size |-> clamp_size(size), ttl |-> t, stats |-> ZeroStats]

generate_key(prompt, llm_string) == << prompt, llm_string >>

\* is_expired with the boundary age counted as expired
is_expired_at_boundary(entry, t, clock) ==
    IF t = NoneTTL THEN FALSE ELSE clock - entry.last_accessed >= t

is_expired(entry, t, clock) ==
    IF t = NoneTTL THEN FALSE ELSE clock - entry.last_accessed > t

\* popitem taking the most recently used end
popitem_last(c) == [rest |-> SubSeq(c, 1, Len(c) - 1), key |-> c[Len(c)].key]

\* OrderedDict.popitem(last=False): the remaining map and the removed key
popitem(c) == [rest |-> Tail(c), key |-> Head(c).key]

\* OrderedDict.move_to_end(key)
move_to_end(c, k) == Append(DelKey(c, k), EntryOf(c, k))

\* a lookup that leaves last_accessed as it was
stamp_skipped(c, k, clock) == c

\* entry['last_accessed'] = datetime.now()
stamp(c, k, clock) ==
    [ i \in 1..Len(c) |-> IF c[i].key = k THEN [c[i] EXCEPT !.last_accessed = clock] ELSE c[i] ]

\* update's loop condition letting the map grow one past the bound
update_full_late(c, n) == Len(c) > n

\* the loop condition of update's eviction loop
update_full(c, n) == Len(c) >= n

\* resize's loop condition evicting already at the bound
resize_over_eq(c, n) == Len(c) >= n

\* the loop condition of resize's eviction loop
resize_over(c, n) == Len(c) > n

RECURSIVE update_evict(_, _)
\* while len(self._cache) >= self.max_size: popitem(last=False)
update_evict(c, n) ==
    IF update_full(c, n) /\ Len(c) > 0
    THEN LET p == popitem(c)
             r == update_evict(p.rest, n)
         IN  [cache |-> r.cache, evicted |-> << p.key >> \o r.evicted]
    ELSE [cache |-> c, evicted |-> << >>]

RECURSIVE resize_evict(_, _)
\* while len(self._cache) > self.max_size: popitem(last=False)
resize_evict(c, n) ==
    IF resize_over(c, n) /\ Len(c) > 0
    THEN LET p == popitem(c)
             r == resize_evict(p.rest, n)
         IN  [cache |-> r.cache, evicted |-> << p.key >> \o r.evicted]
    ELSE [cache |-> c, evicted |-> << >>]

\* lookup: the state after the call, what it returns, whether it was a hit;
\* the clock is read in _is_expired (c1) and again for last_accessed (c2)
MemLookupAt(m, k, c1, c2) ==
    IF ~HasKey(m.cache, k)
    THEN [m |-> [m EXCEPT !.stats.misses = @ + 1],
          ret |-> None, hit |-> FALSE, evicted |-> << >>, raised |-> FALSE, failed |-> FALSE]
    ELSE IF is_expired(EntryOf(m.cache, k), m.ttl, c1)
    THEN [m |-> [m EXCEPT !.cache = DelKey(m.cache, k),
                          !.stats.expired = @ + 1,
                          !.stats.misses = @ + 1],
          ret |-> None, hit |-> FALSE, evicted |-> << >>, raised |-> FALSE, failed |-> FALSE]
    ELSE [m |-> [m EXCEPT !.cache = stamp(move_to_end(m.cache, k), k, c2),
                          !.stats.hits = @ + 1],
          ret |-> Some(Generation(EntryOf(m.cache, k).response, "None")),
          hit |-> TRUE, evicted |-> << >>, raised |-> FALSE, failed |-> FALSE]

\* lookup by one caller: no time passes inside the call
MemLookup(m, k, clock) == MemLookupAt(m, k, clock, clock)

\* an update that leaves the old entry of the key in the map
update_drop_never(c, k) == c

\* if key in self._cache: del self._cache[key]
update_drop(c, k) == IF HasKey(c, k) THEN DelKey(c, k) ELSE c

\* update: the delete and the evictions precede the read of return_val.text,
\* which raises AttributeError for a value that is not a Generation
MemUpdate(m, k, v, clock) ==
    LET c1 == update_drop(m.cache, k)
        ev == update_evict(c1, m.max_size)
        st == [m.stats EXCEPT !.evictions = @ + Len(ev.evicted)]
        entry == [key |-> k, response |-> v.text,
                  created_at |-> clock, last_accessed |-> clock]
    IN  IF v.type = "Generation"
        THEN [m |-> [m EXCEPT !.cache = Append(ev.cache, entry), !.stats = st],
              ret |-> None, hit |-> FALSE, evicted |-> ev.evicted, raised |-> FALSE, failed |-> FALSE]
        ELSE [m |-> [m EXCEPT !.cache = ev.cache, !.stats = st],
              ret |-> None, hit |-> FALSE, evicted |-> ev.evicted, raised |-> TRUE, failed |-> FALSE]

\* a clear that resets the counters and keeps the map
MemClearCounters(m) ==
    [m |-> [m EXCEPT !.stats = ZeroStats],
     ret |-> None, hit |-> FALSE, evicted |-> << >>, raised |-> FALSE, failed |-> FALSE]

\* clear: empties the map and resets the counters
MemClear(m) ==
    [m |-> [m EXCEPT !.cache = << >>, !.stats = ZeroStats],
     ret |-> None, hit |-> FALSE, evicted |-> << >>, raised |-> FALSE, failed |-> FALSE]

\* a resize that sets the bound and leaves the entries above it in the map
MemResizeKeeps(m, n) ==
    [m |-> [m EXCEPT !.max_size = clamp_size(n)],
     ret |-> None, hit |-> FALSE, evicted |-> << >>, raised |-> FALSE, failed |-> FALSE]

\* resize
MemResize(m, n) ==
    LET ev == resize_evict(m.cache, clamp_size(n))
    IN  [m |-> [m EXCEPT !.max_size = clamp_size(n),
                         !.cache = ev.cache,
                         !.stats.evictions = @ + Len(ev.evicted)],
         ret |-> None, hit |-> FALSE, evicted |-> ev.evicted, raised |-> FALSE, failed |-> FALSE]

\* the in-memory backend as one record
Mem == [cache |-> cache, max_size |-> max_size, ttl |-> ttl, stats |-> stats]

----------------------------------------------------------------------------
(* LRUSQLiteCache: table lru_cache and trigger_lru_eviction *)

\* str(prompt), str(llm_string), str(return_val) of values that are str
to_str(v) == v.text

RowKeys(R) == { r.key : r \in R }

RowOf(R, k) == CHOOSE r \in R : r.key = k

\* id INTEGER PRIMARY KEY without AUTOINCREMENT: one more than the largest id
\* in the table, the row about to be replaced included
new_rowid(R) ==
    IF R = {} THEN 1 ELSE (CHOOSE i \in { r.id : r \in R } : \A r \in R : r.id <= i) + 1

\* the eviction order reversed: newest first
access_after(q, r) ==
    \/ q.last_accessed > r.last_accessed
    \/ q.last_accessed = r.last_accessed /\ q.id > r.id

\* ORDER BY last_accessed ASC as the scan of idx_cache_access yields it:
\* by last_accessed, then by rowid
access_before(q, r) ==
    \/ q.last_accessed < r.last_accessed
    \/ q.last_accessed = r.last_accessed /\ q.id < r.id

\* SELECT id FROM lru_cache ORDER BY last_accessed ASC LIMIT n
oldest_rows(R, n) ==
    { r \in R : Cardinality({ q \in R : access_before(q, r) }) < n }

\* the trigger firing one row late
trigger_when_late(R, bound) == Cardinality(R) > bound + 1

\* WHEN (SELECT COUNT(*) FROM lru_cache) > max_size
trigger_when(R, bound) == Cardinality(R) > bound

\* trigger_lru_eviction, AFTER INSERT: the rows it deletes
trigger_deletes(R, bound) ==
    IF trigger_when(R, bound) THEN oldest_rows(R, Cardinality(R) - bound) ELSE {}

RECURSIVE RowsInOrder(_)
\* the keys of a set of rows, oldest first
RowsInOrder(R) ==
    IF R = {} THEN << >>
    ELSE LET r == CHOOSE x \in R : \A q \in R : q = x \/ access_before(x, q)
         IN  << r.key >> \o RowsInOrder(R \ {r})

\* a plain INSERT into a table without the UNIQUE constraint
insert_plain(R, k, v, clock) ==
    R \cup
    { [id |-> new_rowid(R), key |-> k, response |-> to_str(v),
       created_at |-> clock, last_accessed |-> clock] }

\* INSERT OR REPLACE INTO lru_cache (prompt, llm_string, response, last_accessed)
insert_or_replace(R, k, v, clock) ==
    { r \in R : r.key # k } \cup
    { [id |-> new_rowid(R), key |-> k, response |-> to_str(v),
       created_at |-> clock, last_accessed |-> clock] }

\* update: the insert and the trigger are one transaction; a storage error
\* rolls it back and is swallowed by _handle_error
DbUpdate(R, bound, k, v, clock, fail) ==
    LET R1 == insert_or_replace(R, k, v, clock)
        D == trigger_deletes(R1, bound)
    IN  IF fail
        THEN [rows |-> R, ret |-> None, hit |-> FALSE, evicted |-> << >>, raised |-> FALSE, failed |-> fail]
        ELSE [rows |-> R1 \ D, ret |-> None, hit |-> FALSE,
              evicted |-> RowsInOrder(D), raised |-> FALSE, failed |-> fail]

\* lookup: SELECT response, then UPDATE last_accessed = CURRENT_TIMESTAMP
DbLookup(R, k, clock, fail) ==
    IF fail \/ k \notin RowKeys(R)
    THEN [rows |-> R, ret |-> None, hit |-> FALSE, evicted |-> << >>, raised |-> FALSE, failed |-> fail]
    ELSE [rows |-> { IF r.key = k THEN [r EXCEPT !.last_accessed = clock] ELSE r : r \in R },
          ret |-> Some(PlainStr(RowOf(R, k).response)), hit |-> TRUE,
          evicted |-> << >>, raised |-> FALSE, failed |-> fail]

\* a clear whose DELETE is kept although the transaction failed
DbClearUnguarded(R, fail) ==
    [rows |-> {}, ret |-> None, hit |-> FALSE,
     evicted |-> << >>, raised |-> FALSE, failed |-> fail]

\* clear: DELETE FROM lru_cache
DbClear(R, fail) ==
    [rows |-> IF fail THEN R ELSE {}, ret |-> None, hit |-> FALSE,
     evicted |-> << >>, raised |-> FALSE, failed |-> fail]

----------------------------------------------------------------------------
(* CacheManager *)

AllAttrs == { "cache_initialized", "init_attempts", "last_error" }

\* super().__new__(cls): an object without attributes yet
NewObject ==
    [attrs |-> {}, cache_initialized |-> FALSE, init_attempts |-> 0, last_error |-> None]

\* _initialize up to the call of _init_cache
InitializedObject == [NewObject EXCEPT !.attrs = AllAttrs]

\* a failure handler that keeps the flag of a successful initialization
init_failed_flagged(o, e) ==
    [o EXCEPT !.init_attempts = @ + 1, !.last_error = e, !.cache_initialized = TRUE]

\* what _init_cache leaves behind when the backend constructor raised e
init_failed(o, e) ==
    [o EXCEPT !.init_attempts = @ + 1, !.last_error = e, !.cache_initialized = FALSE]

\* a successful initialization that does not set the flag
init_unflagged(o) == [o EXCEPT !.init_attempts = @ + 1]

\* what _init_cache leaves behind when the backend was installed
init_succeeded(o) ==
    [o EXCEPT !.init_attempts = @ + 1, !.cache_initialized = TRUE]

\* CREATE TRIGGER IF NOT EXISTS trigger_lru_eviction with max_size written
\* into its text: existing is the bound of the trigger already in the store,
\* 0 when there is none
create_trigger(existing, bound) == IF existing = 0 THEN bound ELSE existing

\* sqlite3.connect(database_path) creates the file when there is none; a
\* path that cannot be opened stays as it is
connect(p, outcome) ==
    IF outcome = ConnectError THEN p ELSE "live"

\* a table created over the rows of the store
create_table_fresh(existing) == {}

\* CREATE TABLE IF NOT EXISTS lru_cache: the rows of an existing table stay
create_table(existing) == existing

\* the backend type _init_cache selects
selected_backend(type) == IF type = "sqlite" THEN "sqlite" ELSE "memory"

----------------------------------------------------------------------------
(* Initial state: the classes are loaded, nothing is constructed yet *)

NoKey == << >>

NoValue == PlainStr("")

NoCall ==
    [op |-> "none", key |-> NoKey, arg |-> NoValue, size |-> 0, at |-> 0, ret |-> None,
     hit |-> FALSE, raised |-> FALSE, failed |-> FALSE, evicted |-> << >>]

\* the record of a completed call; r is the result of the operator that ran it
Call(op, k, v, n, r) ==
    [op |-> op, key |-> k, arg |-> v, size |-> n, at |-> now, ret |-> r.ret,
     hit |-> r.hit, raised |-> r.raised, failed |-> r.failed, evicted |-> r.evicted]

\* the locals of a thread that is not in a call
NoLocals ==
    [op |-> "none", key |-> NoKey, arg |-> NoValue, n |-> 0, at |-> 0,
     at2 |-> 0, self |-> 0, tmp |-> 0, err |-> None, inst |-> 0, ret |-> None,
     hit |-> FALSE, raised |-> FALSE, evicted |-> << >>, seen |-> ZeroStats]

Configs ==
    [ENABLE_CACHE : BOOLEAN, CACHE_TYPE : CacheTypes,
     CACHE_MAX_SIZE : ConfigSizes, CACHE_TTL : ConfigTTLs]

\* nothing constructed, the configuration drawn from C
InitFrom(C) ==
    /\ Config \in C
    /\ instance = 0
    /\ objects = << >>
    /\ llm_cache = "None"
    /\ built = 0
    /\ cache = << >>
    /\ max_size = 1
    /\ ttl = NoneTTL
    /\ stats = ZeroStats
    /\ rows = {}
    /\ trigger_max = 0
    /\ path = "absent"
    /\ issued = 0
    /\ now = 0
    /\ last = NoCall
    /\ touched = << >>
    /\ nops = 0
    /\ pc = [t \in Threads |-> "idle"]
    /\ local = [t \in Threads |-> NoLocals]
    /\ lock = [owner |-> 0, count |-> 0]
    /\ lin = [t \in Threads |-> MemInit(1, NoneTTL)]

Init == InitFrom(Configs)

----------------------------------------------------------------------------
(* One caller *)

\* CacheManager(): __new__, _initialize and _init_cache as one call.
\* outcome is None or the error the durable constructor raises; the except
\* clause of _init_cache catches it, nothing is raised to the caller.
New(outcome) ==
    /\ instance = 0
    /\ outcome \in IF Config.ENABLE_CACHE /\ selected_backend(Config.CACHE_TYPE) = "sqlite"
                   THEN {None} \cup InitErrors ELSE {None}
    /\ instance' = Len(objects) + 1
    /\ path' = IF Config.ENABLE_CACHE /\ selected_backend(Config.CACHE_TYPE) = "sqlite"
               THEN connect(path, outcome) ELSE path
    /\ IF ~Config.ENABLE_CACHE
       THEN /\ objects' = Append(objects, InitializedObject)
            /\ llm_cache' = "None"
            /\ UNCHANGED << built, memVars, sqlVars >>
       ELSE IF outcome # None
       THEN /\ objects' = Append(objects, init_failed(InitializedObject, outcome))
            /\ llm_cache' = "None"
            /\ UNCHANGED << built, memVars, sqlVars >>
       ELSE /\ objects' = Append(objects, init_succeeded(InitializedObject))
            /\ llm_cache' = selected_backend(Config.CACHE_TYPE)
            /\ built' = built + 1
            /\ IF selected_backend(Config.CACHE_TYPE) = "sqlite"
               THEN /\ max_size' = clamp_size(Config.CACHE_MAX_SIZE)
                    /\ trigger_max' = create_trigger(trigger_max, clamp_size(Config.CACHE_MAX_SIZE))
                    /\ rows' = create_table(rows)
                    /\ UNCHANGED << cache, ttl, stats >>
               ELSE /\ cache' = MemInit(Config.CACHE_MAX_SIZE, Config.CACHE_TTL).cache
                    /\ max_size' = MemInit(Config.CACHE_MAX_SIZE, Config.CACHE_TTL).max_size
                    /\ ttl' = MemInit(Config.CACHE_MAX_SIZE, Config.CACHE_TTL).ttl
                    /\ stats' = MemInit(Config.CACHE_MAX_SIZE, Config.CACHE_TTL).stats
                    /\ UNCHANGED sqlVars
    /\ last' = [NoCall EXCEPT !.op = "CacheManager", !.at = now, !.ret = outcome,
                               !.failed = (outcome # None), !.raised = FALSE]
    /\ UNCHANGED << Config, issued, now, touched, nops, thrVars >>

\* the in-memory backend after a call
SetMem(m) ==
    /\ cache' = m.cache
    /\ max_size' = m.max_size
    /\ ttl' = m.ttl
    /\ stats' = m.stats

MemCallable == llm_cache = "memory" /\ nops < MaxOps

DbCallable == llm_cache = "sqlite" /\ nops < MaxOps

Lookup(k) ==
    /\ MemCallable
    /\ LET r == MemLookup(Mem, k, now)
       IN  /\ SetMem(r.m)
           /\ last' = Call("lookup", k, NoValue, 0, r)
           /\ touched' = IF r.hit THEN Touch(touched, k) ELSE touched
    /\ nops' = nops + 1
    /\ UNCHANGED << Config, mgrVars, sqlVars, storeVars, now, thrVars >>

Update(k, v) ==
    /\ MemCallable
    /\ LET r == MemUpdate(Mem, k, v, now)
       IN  /\ SetMem(r.m)
           /\ last' = Call("update", k, v, 0, r)
           /\ touched' = IF r.raised THEN touched ELSE Touch(touched, k)
    /\ nops' = nops + 1
    /\ UNCHANGED << Config, mgrVars, sqlVars, storeVars, now, thrVars >>

Clear ==
    /\ MemCallable
    /\ LET r == MemClear(Mem)
       IN  /\ SetMem(r.m)
           /\ last' = Call("clear", NoKey, NoValue, 0, r)
    /\ touched' = << >>
    /\ nops' = nops + 1
    /\ UNCHANGED << Config, mgrVars, sqlVars, storeVars, now, thrVars >>

Resize(n) ==
    /\ MemCallable
    /\ LET r == MemResize(Mem, n)
       IN  /\ SetMem(r.m)
           /\ last' = Call("resize", NoKey, NoValue, n, r)
    /\ nops' = nops + 1
    /\ UNCHANGED << Config, mgrVars, sqlVars, storeVars, now, touched, thrVars >>

SqlLookup(k, fail) ==
    /\ DbCallable
    /\ LET r == DbLookup(rows, k, now, fail)
       IN  /\ rows' = r.rows
           /\ last' = Call("lookup", k, NoValue, 0, r)
           /\ touched' = IF r.hit THEN Touch(touched, k) ELSE touched
    /\ nops' = nops + 1
    /\ UNCHANGED << Config, mgrVars, memVars, trigger_max, storeVars, now, thrVars >>

SqlUpdate(k, v, fail) ==
    /\ DbCallable
    /\ LET r == DbUpdate(rows, trigger_max, k, v, now, fail)
       IN  /\ rows' = r.rows
           /\ last' = Call("update", k, v, 0, r)
           /\ touched' = IF fail THEN touched ELSE Touch(touched, k)
           /\ issued' = IF fail THEN issued ELSE Max(issued, new_rowid(rows))
    /\ nops' = nops + 1
    /\ UNCHANGED << Config, mgrVars, memVars, trigger_max, path, now, thrVars >>

SqlClear(fail) ==
    /\ DbCallable
    /\ LET r == DbClear(rows, fail)
       IN  /\ rows' = r.rows
           /\ last' = Call("clear", NoKey, NoValue, 0, r)
    /\ touched' = IF fail THEN touched ELSE << >>
    /\ nops' = nops + 1
    /\ UNCHANGED << Config, mgrVars, memVars, trigger_max, storeVars, now, thrVars >>

\* time passes between calls
Tick ==
    /\ now < MaxTime
    /\ now' = now + 1
    /\ UNCHANGED << Config, mgrVars, memVars, sqlVars, storeVars, last, touched, nops, thrVars >>

MemValues == Generations \cup { HealthValue }

\* under one caller the storage engine works: no call hits sqlite3.Error
StorageFaults == { FALSE }

DbValues == { PlainStr(t) : t \in Texts }

Next ==
    \/ \E outcome \in {None} \cup InitErrors : New(outcome)
    \/ \E k \in Keys : Lookup(k)
    \/ \E k \in Keys, v \in MemValues : Update(k, v)
    \/ Clear
    \/ \E n \in ResizeSizes : Resize(n)
    \/ \E k \in Keys, fail \in StorageFaults : SqlLookup(k, fail)
    \/ \E k \in Keys, v \in DbValues, fail \in StorageFaults : SqlUpdate(k, v, fail)
    \/ \E fail \in StorageFaults : SqlClear(fail)
    \/ Tick

Spec == Init /\ [][Next]_vars

----------------------------------------------------------------------------
(* Properties of the backends under one caller *)

K1 == << "p1", "m1" >>

K2 == << "p2", "m1" >>

K3 == << "p1", "m2" >>

\* a step of Next that is a backend call
IsCall == nops' = nops + 1

\* the present keys other than k, least recently touched first
LruOrder(present, k) == SelectSeq(touched, LAMBDA x : x \in present /\ x # k)

\* C1: in-memory backend: once constructed and after every call,
\* 1 <= max_size and the number of entries is at most max_size
MemCapacityBound ==
    llm_cache = "memory" => max_size >= 1 /\ Len(cache) >= 0 /\ Len(cache) <= max_size

\* an update into a full in-memory cache has evicted and the cache is full again
MemCapacityWitness ==
    /\ llm_cache = "memory"
    /\ last.op = "update"
    /\ last.evicted # << >>
    /\ Len(cache) = max_size
    /\ Config.CACHE_MAX_SIZE = 0

\* C2: in-memory backend: the entries an update or a resize evicts are the
\* entries present at that moment whose last successful lookup or insert is
\* the earliest, evicted in that order
MemEvictsLeastRecentlyUsed ==
    [][ (llm_cache = "memory" /\ IsCall /\ last'.evicted # << >>)
        => /\ last'.op \in { "update", "resize" }
           /\ last'.evicted =
                SubSeq(LruOrder(KeySet(cache), last'.key), 1, Len(last'.evicted)) ]_vars

\* K1 was inserted before K2 and looked up after it; the insert of K3 evicted K2
MemEvictsWitness ==
    /\ llm_cache = "memory"
    /\ last.op = "update"
    /\ last.key = K3
    /\ last.evicted = << K2 >>
    /\ SeqKeys(cache) = << K1, K3 >>
    /\ stats.hits = 1

MemTtlLookup ==
    [][ (llm_cache = "memory" /\ IsCall /\ last'.op = "lookup") =>
        LET k == last'.key
            present == HasKey(cache, k)
            aged == ttl # NoneTTL /\ now - EntryOf(cache, k).last_accessed > ttl
        IN  /\ (present /\ aged) =>
                /\ last'.ret = None
                /\ stats' = [stats EXCEPT !.expired = @ + 1, !.misses = @ + 1]
                /\ ~HasKey(cache', k)
            /\ (present /\ ~aged) =>
                /\ last'.ret = Some(Generation(EntryOf(cache, k).response, "None"))
                /\ stats' = [stats EXCEPT !.hits = @ + 1]
            /\ ~present =>
                /\ last'.ret = None
                /\ stats' = [stats EXCEPT !.misses = @ + 1]
                /\ cache' = cache ]_vars

\* an entry expired at a lookup and the same key was looked up once more
MemTtlWitness ==
    /\ llm_cache = "memory"
    /\ ttl = 1
    /\ last.op = "lookup"
    /\ ~last.hit
    /\ stats.expired = 1
    /\ stats.misses = 2
    /\ stats.hits = 0

\* C5: durable backend: after every call the table holds at most max_size rows
DbCapacityBound ==
    llm_cache = "sqlite" => Cardinality(rows) <= max_size

\* the trigger deleted a row and the table is at its bound
DbCapacityWitness ==
    /\ llm_cache = "sqlite"
    /\ last.op = "update"
    /\ last.evicted # << >>
    /\ Cardinality(rows) = max_size
    /\ max_size = 2

\* the last n elements of a sequence, as a set
LastN(s, n) == { s[i] : i \in { j \in 1..Len(s) : j > Len(s) - n } }

\* C6: durable backend: the surviving rows are exactly the max_size most
\* recently accessed keys, an update and a successful lookup both counting as
\* an access, also when calls are stamped with the same last_accessed
DbSurvivorsMostRecent ==
    llm_cache = "sqlite" => RowKeys(rows) = LastN(touched, max_size)


\* C15: in-memory resize(n): the bound becomes max(n, 1); with n >= size no
\* entry is evicted and entries, order and counters stay; with n < size
\* exactly the size - max(n, 1) least recently used entries go and evictions
\* grows by that number; a second resize(n) right after changes nothing
ResizeEffect ==
    [][ (llm_cache = "memory" /\ IsCall /\ last'.op = "resize") =>
        LET n == clamp_size(last'.size)
            over == Len(cache) - n
            again == MemResize(Mem', last'.size)
        IN  /\ max_size' = n
            /\ ttl' = ttl
            /\ over <= 0 =>
                /\ cache' = cache
                /\ stats' = stats
                /\ last'.evicted = << >>
            /\ over > 0 =>
                /\ cache' = SubSeq(cache, over + 1, Len(cache))
                /\ last'.evicted = SubSeq(SeqKeys(cache), 1, over)
                /\ stats' = [stats EXCEPT !.evictions = @ + over]
            /\ again.m = Mem'
            /\ again.evicted = << >> ]_vars

\* resize(0) on a cache of two entries evicted the least recently used one
ResizeWitness ==
    /\ llm_cache = "memory"
    /\ last.op = "resize"
    /\ last.size = 0
    /\ Len(last.evicted) = 1
    /\ Len(cache) = 1
    /\ max_size = 1
    /\ stats.evictions = 1

----------------------------------------------------------------------------
(* Several threads call CacheManager() for the first time.  __new__ holds no
   lock, so the threads interleave between its statements. *)

SetLocal(t, f, x) == local' = [local EXCEPT ![t][f] = x]

Goto(t, label) == pc' = [pc EXCEPT ![t] = label]

newFrame == << Config, cache, max_size, ttl, stats, rows, trigger_max, path,
               issued, now, last, touched, nops, lock, lin >>

\* a thread enters CacheManager()
NewCall(t) ==
    /\ pc[t] = "idle"
    /\ Goto(t, "new_check")
    /\ UNCHANGED << mgrVars, local, newFrame >>

\* if cls._instance is None
NewCheck(t) ==
    /\ pc[t] = "new_check"
    /\ Goto(t, IF instance = 0 THEN "new_alloc" ELSE "new_return")
    /\ UNCHANGED << mgrVars, local, newFrame >>

\* cls._instance = super().__new__(cls)
NewAlloc(t) ==
    /\ pc[t] = "new_alloc"
    /\ objects' = Append(objects, NewObject)
    /\ instance' = Len(objects) + 1
    /\ Goto(t, "new_load")
    /\ UNCHANGED << llm_cache, built, local, newFrame >>

\* cls._instance._initialize(): the receiver is read from cls._instance
NewLoad(t) ==
    /\ pc[t] = "new_load"
    /\ SetLocal(t, "self", instance)
    /\ Goto(t, "init_flag")
    /\ UNCHANGED << mgrVars, newFrame >>

\* self._cache_initialized = False
InitFlag(t) ==
    /\ pc[t] = "init_flag"
    /\ objects' = [objects EXCEPT ![local[t].self].cache_initialized = FALSE,
                                  ![local[t].self].attrs = @ \cup {"cache_initialized"}]
    /\ Goto(t, "init_attempts")
    /\ UNCHANGED << instance, llm_cache, built, local, newFrame >>

\* self._init_attempts = 0
InitAttempts(t) ==
    /\ pc[t] = "init_attempts"
    /\ objects' = [objects EXCEPT ![local[t].self].init_attempts = 0,
                                  ![local[t].self].attrs = @ \cup {"init_attempts"}]
    /\ Goto(t, "init_error")
    /\ UNCHANGED << instance, llm_cache, built, local, newFrame >>

\* self._last_error = None
InitError(t) ==
    /\ pc[t] = "init_error"
    /\ objects' = [objects EXCEPT ![local[t].self].last_error = None,
                                  ![local[t].self].attrs = @ \cup {"last_error"}]
    /\ Goto(t, "cache_enabled")
    /\ UNCHANGED << instance, llm_cache, built, local, newFrame >>

\* _init_cache: if not Config.ENABLE_CACHE: langchain.llm_cache = None; return
CacheEnabled(t) ==
    /\ pc[t] = "cache_enabled"
    /\ IF Config.ENABLE_CACHE
       THEN Goto(t, "attempts_read") /\ UNCHANGED llm_cache
       ELSE Goto(t, "new_return") /\ llm_cache' = "None"
    /\ UNCHANGED << instance, objects, built, local, newFrame >>

\* self._init_attempts += 1, the read
AttemptsRead(t) ==
    /\ pc[t] = "attempts_read"
    /\ SetLocal(t, "tmp", objects[local[t].self].init_attempts)
    /\ Goto(t, "attempts_write")
    /\ UNCHANGED << mgrVars, newFrame >>

\* self._init_attempts += 1, the write
AttemptsWrite(t) ==
    /\ pc[t] = "attempts_write"
    /\ objects' = [objects EXCEPT ![local[t].self].init_attempts = local[t].tmp + 1]
    /\ Goto(t, "setup")
    /\ UNCHANGED << instance, llm_cache, built, local, newFrame >>

\* _setup_sqlite_cache / _setup_memory_cache: a new backend object is built
\* and assigned to langchain.llm_cache, or the durable constructor raises
Setup(t, outcome) ==
    /\ pc[t] = "setup"
    /\ outcome \in IF selected_backend(Config.CACHE_TYPE) = "sqlite"
                   THEN {None} \cup InitErrors ELSE {None}
    /\ IF outcome # None
       THEN /\ SetLocal(t, "err", outcome)
            /\ Goto(t, "except_error")
            /\ UNCHANGED << llm_cache, built, memVars, sqlVars >>
       ELSE /\ llm_cache' = selected_backend(Config.CACHE_TYPE)
            /\ built' = built + 1
            /\ Goto(t, "set_initialized")
            /\ IF selected_backend(Config.CACHE_TYPE) = "sqlite"
               THEN /\ max_size' = clamp_size(Config.CACHE_MAX_SIZE)
                    /\ trigger_max' = create_trigger(trigger_max, clamp_size(Config.CACHE_MAX_SIZE))
                    /\ rows' = create_table(rows)
                    /\ UNCHANGED << cache, ttl, stats >>
               ELSE /\ SetMem(MemInit(Config.CACHE_MAX_SIZE, Config.CACHE_TTL))
                    /\ UNCHANGED sqlVars
            /\ UNCHANGED local
    /\ path' = IF selected_backend(Config.CACHE_TYPE) = "sqlite"
               THEN connect(path, outcome) ELSE path
    /\ UNCHANGED << Config, instance, objects, issued, now, last, touched, nops, lock, lin >>

\* self._cache_initialized = True
SetInitialized(t) ==
    /\ pc[t] = "set_initialized"
    /\ objects' = [objects EXCEPT ![local[t].self].cache_initialized = TRUE]
    /\ Goto(t, "new_return")
    /\ UNCHANGED << instance, llm_cache, built, local, newFrame >>

\* except Exception as e: self._last_error = str(e)
ExceptError(t) ==
    /\ pc[t] = "except_error"
    /\ objects' = [objects EXCEPT ![local[t].self].last_error = local[t].err]
    /\ Goto(t, "except_cache")
    /\ UNCHANGED << instance, llm_cache, built, local, newFrame >>

\* langchain.llm_cache = None
ExceptCache(t) ==
    /\ pc[t] = "except_cache"
    /\ llm_cache' = "None"
    /\ Goto(t, "except_flag")
    /\ UNCHANGED << instance, objects, built, local, newFrame >>

\* self._cache_initialized = False
ExceptFlag(t) ==
    /\ pc[t] = "except_flag"
    /\ objects' = [objects EXCEPT ![local[t].self].cache_initialized = FALSE]
    /\ Goto(t, "new_return")
    /\ UNCHANGED << instance, llm_cache, built, local, newFrame >>

\* return cls._instance
NewReturn(t) ==
    /\ pc[t] = "new_return"
    /\ SetLocal(t, "inst", instance)
    /\ Goto(t, "new_done")
    /\ UNCHANGED << mgrVars, newFrame >>

NextNew ==
    \E t \in Threads :
        \/ NewCall(t)
        \/ NewCheck(t)
        \/ NewAlloc(t)
        \/ NewLoad(t)
        \/ InitFlag(t)
        \/ InitAttempts(t)
        \/ InitError(t)
        \/ CacheEnabled(t)
        \/ AttemptsRead(t)
        \/ AttemptsWrite(t)
        \/ \E outcome \in {None} \cup InitErrors : Setup(t, outcome)
        \/ SetInitialized(t)
        \/ ExceptError(t)
        \/ ExceptCache(t)
        \/ ExceptFlag(t)
        \/ NewReturn(t)

SpecNew == Init /\ [][NextNew]_vars


----------------------------------------------------------------------------
(* Properties of the manager *)

AllReturned == \A t \in Threads : pc[t] = "new_done"

\* a thread is inside _initialize / _init_cache of object o
Initializing(t, o) ==
    /\ local[t].self = o
    /\ pc[t] \in { "init_flag", "init_attempts", "init_error", "cache_enabled",
                   "attempts_read", "attempts_write", "setup", "set_initialized",
                   "except_error", "except_cache", "except_flag" }

\* C7: when several threads call CacheManager() for the first time
\* concurrently, one manager object and at most one backend object are
\* constructed, its init_attempts ends at most 1 and all callers get the
\* same instance
SingleInitialization ==
    AllReturned =>
        /\ Len(objects) = 1
        /\ built <= 1
        /\ \A o \in 1..Len(objects) : objects[o].init_attempts <= 1
        /\ \A t1, t2 \in Threads : local[t1].inst = local[t2].inst

\* C8: every instance CacheManager() has returned has its initialized flag,
\* attempt counter and last error set and no thread is still initializing it
ReturnedInstanceInitialized ==
    \A t \in Threads :
        pc[t] = "new_done" =>
            /\ local[t].inst \in 1..Len(objects)
            /\ objects[local[t].inst].attrs = AllAttrs
            /\ \A u \in Threads : ~Initializing(u, local[t].inst)

\* C10: when the backend constructor raised, CacheManager() returned without
\* raising, the attempt counter of the new manager is 1, last_error is the
\* message of the error, initialized is false and no backend is installed
InitFailureRecorded ==
    (last.op = "CacheManager" /\ last.failed) =>
        /\ ~last.raised
        /\ instance \in 1..Len(objects)
        /\ objects[instance].attrs = AllAttrs
        /\ objects[instance].init_attempts = 1
        /\ objects[instance].last_error = last.ret
        /\ objects[instance].last_error # None
        /\ ~objects[instance].cache_initialized
        /\ llm_cache = "None"
        /\ ~ENABLED (\E k \in Keys : Lookup(k) \/ SqlLookup(k, FALSE))

\* _setup_database failed while the manager was constructed
InitFailureWitness ==
    /\ last.op = "CacheManager"
    /\ last.failed
    /\ instance = 1
    /\ objects[1].last_error = SetupError
    /\ Config.CACHE_TYPE = "sqlite"


----------------------------------------------------------------------------
(* Several threads call one LRUInMemoryCache.  Every public method runs its
   body under "with self._lock"; update reads the clock and both lookup and
   update build the key before they take the lock. *)

ConcKeys == { K1, K2 }

ConcValues == { Generation("a", "None"), HealthValue }

ConcSizes == { 0, 2 }

\* the backends the threads start on: just constructed, or constructed and
\* then given one entry by update(K1, Generation("a")) at time 0
ConcStarts(size, t) ==
    { MemInit(size, t), MemUpdate(MemInit(size, t), K1, Generation("a", "None"), 0).m }

InitConc ==
    /\ Config \in { c \in Configs : c.ENABLE_CACHE /\ c.CACHE_TYPE = "memory" }
    /\ instance = 0
    /\ objects = << >>
    /\ llm_cache = "memory"
    /\ built = 1
    /\ \E m \in ConcStarts(Config.CACHE_MAX_SIZE, Config.CACHE_TTL) :
         /\ cache = m.cache
         /\ max_size = m.max_size
         /\ ttl = m.ttl
         /\ stats = m.stats
    /\ rows = {}
    /\ trigger_max = 0
    /\ path = "absent"
    /\ issued = 0
    /\ now = 0
    /\ last = NoCall
    /\ touched = << >>
    /\ nops = 0
    /\ pc = [t \in Threads |-> "idle"]
    /\ local = [t \in Threads |-> NoLocals]
    /\ lock = [owner |-> 0, count |-> 0]
    /\ lin = [t \in Threads |-> MemInit(1, NoneTTL)]

concFrame == << Config, mgrVars, sqlVars, storeVars, last, touched >>

\* a lock that never makes a thread wait
can_acquire_always(t) == TRUE

\* RLock.acquire: free, or already held by the calling thread
can_acquire(t) == lock.owner = 0 \/ lock.owner = t

\* the position after the lock is taken
FirstLabel(op) ==
    CASE op = "lookup" -> "lookup_check"
      [] op = "update" -> "update_del"
      [] op = "clear" -> "clear_map"
      [] op = "resize" -> "resize_set"
      [] op = "get_stats" -> "stats_rate"

\* a thread starts a call
Begin(t, op, k, v, n) ==
    /\ pc[t] = "idle"
    /\ nops < MaxConcOps
    /\ nops' = nops + 1
    /\ local' = [local EXCEPT ![t] = [NoLocals EXCEPT !.op = op, !.key = k, !.arg = v, !.n = n]]
    /\ Goto(t, IF op = "update" THEN "update_now" ELSE "acquire")
    /\ UNCHANGED << concFrame, memVars, now, lock, lin >>

CallLookup(t, k) == Begin(t, "lookup", generate_key(k[1], k[2]), NoValue, 0)

CallUpdate(t, k, v) == Begin(t, "update", generate_key(k[1], k[2]), v, 0)

CallClear(t) == Begin(t, "clear", NoKey, NoValue, 0)

CallResize(t, n) == Begin(t, "resize", NoKey, NoValue, n)

CallGetStats(t) == Begin(t, "get_stats", NoKey, NoValue, 0)

\* update: now = datetime.now(), before the lock
UpdateNow(t) ==
    /\ pc[t] = "update_now"
    /\ SetLocal(t, "at", now)
    /\ Goto(t, "acquire")
    /\ UNCHANGED << concFrame, memVars, now, nops, lock, lin >>

\* with self._lock: enter
Acquire(t) ==
    /\ pc[t] = "acquire"
    /\ can_acquire(t)
    /\ lock' = [owner |-> t, count |-> lock.count + 1]
    /\ lin' = [lin EXCEPT ![t] = Mem]
    /\ Goto(t, FirstLabel(local[t].op))
    /\ UNCHANGED << concFrame, memVars, now, nops, local >>

\* a call that returns without giving the lock back
ReleaseKept(t) ==
    /\ pc[t] = "release"
    /\ local' = [local EXCEPT ![t] = NoLocals]
    /\ lin' = [lin EXCEPT ![t] = MemInit(1, NoneTTL)]
    /\ Goto(t, "idle")
    /\ UNCHANGED << concFrame, memVars, now, nops, lock >>

\* with self._lock: exit, also when the body raised
Release(t) ==
    /\ pc[t] = "release"
    /\ lock' = IF lock.count <= 1 THEN [owner |-> 0, count |-> 0]
               ELSE [lock EXCEPT !.count = @ - 1]
    /\ local' = [local EXCEPT ![t] = NoLocals]
    /\ lin' = [lin EXCEPT ![t] = MemInit(1, NoneTTL)]
    /\ Goto(t, "idle")
    /\ UNCHANGED << concFrame, memVars, now, nops >>

\* if key not in self._cache: misses += 1; return None
LookupCheck(t) ==
    /\ pc[t] = "lookup_check"
    /\ IF HasKey(cache, local[t].key)
       THEN Goto(t, "lookup_expired") /\ UNCHANGED stats
       ELSE Goto(t, "release") /\ stats' = [stats EXCEPT !.misses = @ + 1]
    /\ UNCHANGED << concFrame, cache, max_size, ttl, now, nops, local, lock, lin >>

\* if self._is_expired(entry)
LookupExpired(t) ==
    /\ pc[t] = "lookup_expired"
    /\ SetLocal(t, "at", now)
    /\ Goto(t, IF is_expired(EntryOf(cache, local[t].key), ttl, now)
               THEN "lookup_del" ELSE "lookup_move")
    /\ UNCHANGED << concFrame, memVars, now, nops, lock, lin >>

\* del self._cache[key]
LookupDel(t) ==
    /\ pc[t] = "lookup_del"
    /\ cache' = DelKey(cache, local[t].key)
    /\ Goto(t, "lookup_count_expired")
    /\ UNCHANGED << concFrame, max_size, ttl, stats, now, nops, local, lock, lin >>

\* self._stats['expired'] += 1
LookupCountExpired(t) ==
    /\ pc[t] = "lookup_count_expired"
    /\ stats' = [stats EXCEPT !.expired = @ + 1]
    /\ Goto(t, "lookup_count_miss")
    /\ UNCHANGED << concFrame, cache, max_size, ttl, now, nops, local, lock, lin >>

\* self._stats['misses'] += 1; return None
LookupCountMiss(t) ==
    /\ pc[t] = "lookup_count_miss"
    /\ stats' = [stats EXCEPT !.misses = @ + 1]
    /\ Goto(t, "release")
    /\ UNCHANGED << concFrame, cache, max_size, ttl, now, nops, local, lock, lin >>

\* self._cache.move_to_end(key)
LookupMove(t) ==
    /\ pc[t] = "lookup_move"
    /\ cache' = move_to_end(cache, local[t].key)
    /\ Goto(t, "lookup_stamp")
    /\ UNCHANGED << concFrame, max_size, ttl, stats, now, nops, local, lock, lin >>

\* entry['last_accessed'] = datetime.now()
LookupStamp(t) ==
    /\ pc[t] = "lookup_stamp"
    /\ cache' = stamp(cache, local[t].key, now)
    /\ SetLocal(t, "at2", now)
    /\ Goto(t, "lookup_hit")
    /\ UNCHANGED << concFrame, max_size, ttl, stats, now, nops, lock, lin >>

\* self._stats['hits'] += 1; return Generation(text=entry['response'])
LookupHit(t) ==
    /\ pc[t] = "lookup_hit"
    /\ stats' = [stats EXCEPT !.hits = @ + 1]
    /\ local' = [local EXCEPT ![t].hit = TRUE,
                              ![t].ret = Some(Generation(EntryOf(cache, local[t].key).response, "None"))]
    /\ Goto(t, "release")
    /\ UNCHANGED << concFrame, cache, max_size, ttl, now, nops, lock, lin >>

\* if key in self._cache: del self._cache[key]
UpdateDel(t) ==
    /\ pc[t] = "update_del"
    /\ cache' = update_drop(cache, local[t].key)
    /\ Goto(t, "update_loop")
    /\ UNCHANGED << concFrame, max_size, ttl, stats, now, nops, local, lock, lin >>

\* while len(self._cache) >= self.max_size: self._cache.popitem(last=False)
UpdateLoop(t) ==
    /\ pc[t] = "update_loop"
    /\ IF update_full(cache, max_size) /\ Len(cache) > 0
       THEN /\ cache' = popitem(cache).rest
            /\ SetLocal(t, "evicted", Append(local[t].evicted, popitem(cache).key))
            /\ Goto(t, "update_count")
       ELSE /\ Goto(t, "update_insert")
            /\ UNCHANGED << cache, local >>
    /\ UNCHANGED << concFrame, max_size, ttl, stats, now, nops, lock, lin >>

\* self._stats['evictions'] += 1
UpdateCount(t) ==
    /\ pc[t] = "update_count"
    /\ stats' = [stats EXCEPT !.evictions = @ + 1]
    /\ Goto(t, "update_loop")
    /\ UNCHANGED << concFrame, cache, max_size, ttl, now, nops, local, lock, lin >>

\* self._cache[key] = {'response': return_val.text, ...}; a str raises
UpdateInsert(t) ==
    /\ pc[t] = "update_insert"
    /\ IF local[t].arg.type = "Generation"
       THEN /\ cache' = Append(cache, [key |-> local[t].key, response |-> local[t].arg.text,
                                       created_at |-> local[t].at, last_accessed |-> local[t].at])
            /\ UNCHANGED local
       ELSE /\ SetLocal(t, "raised", TRUE)
            /\ UNCHANGED cache
    /\ Goto(t, "release")
    /\ UNCHANGED << concFrame, max_size, ttl, stats, now, nops, lock, lin >>

\* self._cache.clear()
ClearMap(t) ==
    /\ pc[t] = "clear_map"
    /\ cache' = << >>
    /\ Goto(t, "clear_stats")
    /\ UNCHANGED << concFrame, max_size, ttl, stats, now, nops, local, lock, lin >>

\* self._reset_stats()
ClearStats(t) ==
    /\ pc[t] = "clear_stats"
    /\ stats' = ZeroStats
    /\ Goto(t, "release")
    /\ UNCHANGED << concFrame, cache, max_size, ttl, now, nops, local, lock, lin >>

\* self.max_size = max(new_size, 1)
ResizeSet(t) ==
    /\ pc[t] = "resize_set"
    /\ max_size' = clamp_size(local[t].n)
    /\ Goto(t, "resize_loop")
    /\ UNCHANGED << concFrame, cache, ttl, stats, now, nops, local, lock, lin >>

\* while len(self._cache) > self.max_size: self._cache.popitem(last=False)
ResizeLoop(t) ==
    /\ pc[t] = "resize_loop"
    /\ IF resize_over(cache, max_size) /\ Len(cache) > 0
       THEN /\ cache' = popitem(cache).rest
            /\ SetLocal(t, "evicted", Append(local[t].evicted, popitem(cache).key))
            /\ Goto(t, "resize_count")
       ELSE /\ Goto(t, "release")
            /\ UNCHANGED << cache, local >>
    /\ UNCHANGED << concFrame, max_size, ttl, stats, now, nops, lock, lin >>

\* self._stats['evictions'] += 1
ResizeCount(t) ==
    /\ pc[t] = "resize_count"
    /\ stats' = [stats EXCEPT !.evictions = @ + 1]
    /\ Goto(t, "resize_loop")
    /\ UNCHANGED << concFrame, cache, max_size, ttl, now, nops, local, lock, lin >>

\* get_stats: total = hits + misses
StatsRate(t) ==
    /\ pc[t] = "stats_rate"
    /\ local' = [local EXCEPT ![t].seen.hits = stats.hits, ![t].seen.misses = stats.misses]
    /\ Goto(t, "stats_size")
    /\ UNCHANGED << concFrame, memVars, now, nops, lock, lin >>

\* get_stats: the returned dict reads len(self._cache) and the counters
StatsSize(t) ==
    /\ pc[t] = "stats_size"
    /\ local' = [local EXCEPT ![t].n = Len(cache),
                              ![t].seen.evictions = stats.evictions,
                              ![t].seen.expired = stats.expired]
    /\ Goto(t, "release")
    /\ UNCHANGED << concFrame, memVars, now, nops, lock, lin >>

TickConc ==
    /\ now < MaxTime
    /\ now' = now + 1
    /\ UNCHANGED << concFrame, memVars, nops, thrVars >>

NextConc ==
    \/ \E t \in Threads :
        \/ \E k \in ConcKeys : CallLookup(t, k)
        \/ \E k \in ConcKeys, v \in ConcValues : CallUpdate(t, k, v)
        \/ CallClear(t)
        \/ \E n \in ConcSizes : CallResize(t, n)
        \/ CallGetStats(t)
        \/ UpdateNow(t)
        \/ Acquire(t)
        \/ Release(t)
        \/ LookupCheck(t)
        \/ LookupExpired(t)
        \/ LookupDel(t)
        \/ LookupCountExpired(t)
        \/ LookupCountMiss(t)
        \/ LookupMove(t)
        \/ LookupStamp(t)
        \/ LookupHit(t)
        \/ UpdateDel(t)
        \/ UpdateLoop(t)
        \/ UpdateCount(t)
        \/ UpdateInsert(t)
        \/ ClearMap(t)
        \/ ClearStats(t)
        \/ ResizeSet(t)
        \/ ResizeLoop(t)
        \/ ResizeCount(t)
        \/ StatsRate(t)
        \/ StatsSize(t)
    \/ TickConc

SpecConc == InitConc /\ [][NextConc]_vars

----------------------------------------------------------------------------
(* Properties of the in-memory backend under several threads *)

\* a thread is between taking and releasing the lock
InCriticalSection(t) == pc[t] \notin { "idle", "update_now", "acquire" }

\* the effect of a whole call, executed alone on the backend m
AtomicEffect(m, l) ==
    CASE l.op = "lookup" -> MemLookupAt(m, l.key, l.at, l.at2)
      [] l.op = "update" -> MemUpdate(m, l.key, l.arg, l.at)
      [] l.op = "clear" -> MemClear(m)
      [] l.op = "resize" -> MemResize(m, l.n)
      [] l.op = "get_stats" -> [m |-> m, ret |-> None, hit |-> FALSE,
                                evicted |-> << >>, raised |-> FALSE, failed |-> FALSE]

\* C9: the in-memory calls of concurrent threads exclude each other: no two
\* threads are inside a call body at once, and when a call ends the entries,
\* their order, the bound and the counters are those of the whole call applied
\* alone to the backend as it was when the call took the lock, as are its
\* result and what get_stats read
MemCallsAtomic ==
    /\ \A t, u \in Threads : (t # u /\ InCriticalSection(t)) => ~InCriticalSection(u)
    /\ \A t \in Threads : InCriticalSection(t) => lock.owner = t
    /\ \A t \in Threads :
         pc[t] = "release" =>
            LET e == AtomicEffect(lin[t], local[t])
            IN  /\ Mem = e.m
                /\ local[t].ret = e.ret
                /\ local[t].hit = e.hit
                /\ local[t].raised = e.raised
                /\ local[t].evicted = e.evicted
                /\ local[t].op = "get_stats" =>
                     local[t].seen = lin[t].stats /\ local[t].n = Len(lin[t].cache)

\* an update that evicted is about to release the lock while the other
\* thread waits for it
MemCallsAtomicWitness ==
    \E t, u \in Threads :
        /\ pc[t] = "release"
        /\ local[t].op = "update"
        /\ local[t].evicted # << >>
        /\ pc[u] = "acquire"
        /\ local[u].op = "lookup"

----------------------------------------------------------------------------
(* get_stats of the two backends *)

\* min(..., default=None) and max(..., default=None) over last_accessed
oldest_of(S) == IF S = {} THEN None ELSE Some(CHOOSE x \in S : \A y \in S : x <= y)

newest_of(S) == IF S = {} THEN None ELSE Some(CHOOSE x \in S : \A y \in S : y <= x)

\* the rate cut off after the fourth decimal place
hit_rate_truncated(st) ==
    LET total == st.hits + st.misses
    IN  IF total > 0 THEN (10000 * st.hits) \div total ELSE 0

\* round(hits / total, 4) if total > 0 else 0, in ten-thousandths
hit_rate(st) ==
    LET total == st.hits + st.misses
    IN  IF total > 0 THEN (2 * 10000 * st.hits + total) \div (2 * total) ELSE 0

\* LRUInMemoryCache.get_stats
MemGetStats(m) ==
    LET times == { m.cache[i].last_accessed : i \in 1..Len(m.cache) }
    IN  [type |-> "lru_memory", current_size |-> Len(m.cache), max_size |-> m.max_size,
         hits |-> m.stats.hits, misses |-> m.stats.misses, hit_rate |-> hit_rate(m.stats),
         evictions |-> m.stats.evictions, expired |-> m.stats.expired,
         oldest_entry |-> oldest_of(times), newest_entry |-> newest_of(times),
         ttl |-> m.ttl]

\* LRUSQLiteCache._calculate_hit_rate
calculate_hit_rate == 0

\* LRUSQLiteCache.get_stats: the queries run before stats.update, so a
\* storage error leaves type, max_size and the status it sets
DbGetStats(R, size, fail) ==
    LET times == { r.last_accessed : r \in R }
    IN  IF fail
        THEN [type |-> "lru_sqlite", max_size |-> size, status |-> "error: sqlite3.Error"]
        ELSE [type |-> "lru_sqlite", max_size |-> size, status |-> "active",
              current_size |-> Cardinality(R),
              oldest_entry |-> oldest_of(times), newest_entry |-> newest_of(times),
              hit_rate |-> calculate_hit_rate]

\* dict.get(key, default)
dict_get(d, key, default) == IF key \in DOMAIN d THEN d[key] ELSE default

----------------------------------------------------------------------------
(* The administrative operations of CacheManager and the requests that
   reach the installed backend through langchain.llm_cache *)

MaxMgrOps == 4

\* Config.CACHE_TYPE may hold any string
MgrTypes == { "sqlite", "memory", "redis" }

MgrConfigs ==
    [ENABLE_CACHE : BOOLEAN, CACHE_TYPE : MgrTypes,
     CACHE_MAX_SIZE : ConfigSizes, CACHE_TTL : { NoneTTL }]

InitMgr == InitFrom(MgrConfigs)

\* two prompts under one llm_string and one prompt under two
MgrKeys == { K1, K2, K3 }

\* test_key = ("health_check", "test")
test_key == << "health_check", "test" >>

\* the messages of the result dicts of clear_cache and health_check
Msg ==
    [sqlite_cleared |-> "sqlite cache cleared",
     no_file |-> "sqlite cache file does not exist",
     memory_cleared |-> "memory cache cleared",
     unknown_or_uninitialized |-> "unknown cache type or cache not initialized",
     clear_failed |-> "clearing the cache failed: OSError",
     disabled |-> "cache disabled",
     sqlite_ok |-> "sqlite cache connection ok",
     memory_ok |-> "memory cache works",
     memory_abnormal |-> "memory cache abnormal",
     unknown_type |-> "unknown cache type",
     check_failed_connect |-> "health check failed: unable to open database file",
     check_failed_text |-> "health check failed: 'str' object has no attribute 'text'"]

\* hasattr(langchain.llm_cache, name) for name in clear, get_stats, lookup
has_backend == llm_cache # "None"

\* the database file is no longer the file at Config.CACHE_PATH: SQLite
\* refuses every write with "attempt to write a readonly database"
detached == path # "live"

\* the result of a call that did nothing
NoEffect ==
    [ret |-> None, hit |-> FALSE, evicted |-> << >>, raised |-> FALSE, failed |-> FALSE]

\* the record of a completed manager call and the dict it returned
MgrCall(op, result) ==
    [NoCall EXCEPT !.op = op, !.at = now, !.ret = Some(result)]

MgrCallable == nops < MaxMgrOps

\* a request looks its prompt up in langchain.llm_cache; without a backend
\* langchain skips the cache
RequestLookup(k) ==
    /\ MgrCallable
    /\ instance # 0
    /\ nops' = nops + 1
    /\ CASE llm_cache = "memory" ->
              LET r == MemLookup(Mem, k, now)
              IN  /\ SetMem(r.m)
                  /\ last' = Call("lookup", k, NoValue, 0, r)
                  /\ touched' = IF r.hit THEN Touch(touched, k) ELSE touched
                  /\ UNCHANGED rows
         [] llm_cache = "sqlite" ->
              LET r == DbLookup(rows, k, now, detached)
              IN  /\ rows' = r.rows
                  /\ last' = Call("lookup", k, NoValue, 0, r)
                  /\ touched' = IF r.hit THEN Touch(touched, k) ELSE touched
                  /\ UNCHANGED memVars
         [] llm_cache = "None" ->
              /\ last' = Call("lookup", k, NoValue, 0, NoEffect)
              /\ UNCHANGED << memVars, rows, touched >>
    /\ UNCHANGED << Config, mgrVars, trigger_max, storeVars, now, thrVars >>

\* a request stores its response in langchain.llm_cache
RequestUpdate(k, v) ==
    /\ MgrCallable
    /\ instance # 0
    /\ nops' = nops + 1
    /\ CASE llm_cache = "memory" ->
              LET r == MemUpdate(Mem, k, Generation(v, "None"), now)
              IN  /\ SetMem(r.m)
                  /\ last' = Call("update", k, Generation(v, "None"), 0, r)
                  /\ touched' = Touch(touched, k)
                  /\ UNCHANGED << rows, issued >>
         [] llm_cache = "sqlite" ->
              LET r == DbUpdate(rows, trigger_max, k, PlainStr(v), now, detached)
              IN  /\ rows' = r.rows
                  /\ last' = Call("update", k, PlainStr(v), 0, r)
                  /\ touched' = IF r.failed THEN touched ELSE Touch(touched, k)
                  /\ issued' = IF r.failed THEN issued ELSE Max(issued, new_rowid(rows))
                  /\ UNCHANGED memVars
         [] llm_cache = "None" ->
              /\ last' = Call("update", k, PlainStr(v), 0, NoEffect)
              /\ UNCHANGED << memVars, rows, touched, issued >>
    /\ UNCHANGED << Config, mgrVars, trigger_max, path, now, thrVars >>

\* CacheManager.clear_cache (a classmethod: callable before any instance
\* exists); unlink_fails: cache_path.unlink() raises OSError
clear_cache(unlink_fails) ==
    /\ MgrCallable
    /\ nops' = nops + 1
    /\ unlink_fails => Config.CACHE_TYPE = "sqlite" /\ path # "absent"
    /\ IF Config.CACHE_TYPE = "sqlite"
       THEN /\ IF path # "absent"
               THEN IF unlink_fails
                    THEN /\ last' = MgrCall("clear_cache",
                                       [success |-> FALSE, message |-> Msg.clear_failed,
                                        cache_type |-> Config.CACHE_TYPE])
                         /\ UNCHANGED << path, rows, trigger_max, issued >>
                    ELSE /\ last' = MgrCall("clear_cache",
                                       [success |-> TRUE, message |-> Msg.sqlite_cleared,
                                        cache_type |-> Config.CACHE_TYPE])
                         /\ path' = "absent"
                         \* an open connection keeps reading the unlinked file
                         /\ IF llm_cache = "sqlite"
                            THEN UNCHANGED << rows, trigger_max, issued >>
                            ELSE rows' = {} /\ trigger_max' = 0 /\ issued' = 0
               ELSE /\ last' = MgrCall("clear_cache",
                                  [success |-> FALSE, message |-> Msg.no_file,
                                   cache_type |-> Config.CACHE_TYPE])
                    /\ UNCHANGED << path, rows, trigger_max, issued >>
            /\ UNCHANGED << memVars, touched >>
       ELSE IF has_backend
       THEN /\ SetMem(MemClear(Mem).m)
            /\ touched' = << >>
            /\ last' = MgrCall("clear_cache",
                          [success |-> TRUE, message |-> Msg.memory_cleared,
                           cache_type |-> Config.CACHE_TYPE])
            /\ UNCHANGED << sqlVars, storeVars >>
       ELSE /\ last' = MgrCall("clear_cache",
                          [success |-> FALSE, message |-> Msg.unknown_or_uninitialized,
                           cache_type |-> Config.CACHE_TYPE])
            /\ UNCHANGED << memVars, sqlVars, storeVars, touched >>
    /\ UNCHANGED << Config, mgrVars, now, thrVars >>

\* CacheManager.get_cache_stats; fail: the storage engine fails inside the
\* durable backend's get_stats
get_cache_stats(fail) ==
    /\ MgrCallable
    /\ instance # 0
    /\ nops' = nops + 1
    /\ fail => llm_cache = "sqlite"
    /\ LET self == objects[instance]
           base_stats ==
               [status |-> IF self.cache_initialized THEN "active" ELSE "inactive",
                type |-> Config.CACHE_TYPE,
                initialized |-> self.cache_initialized,
                last_error |-> self.last_error,
                init_attempts |-> self.init_attempts]
           cache_stats == IF llm_cache = "memory" THEN MemGetStats(Mem)
                          ELSE DbGetStats(rows, max_size, fail)
           merged ==
               [status |-> base_stats.status,
                type |-> base_stats.type,
                initialized |-> base_stats.initialized,
                last_error |-> base_stats.last_error,
                init_attempts |-> base_stats.init_attempts,
                size |-> << dict_get(cache_stats, "current_size", "?"), Config.CACHE_MAX_SIZE >>,
                hit_rate |-> dict_get(cache_stats, "hit_rate", "N/A"),
                details |-> cache_stats]
       IN  last' = [MgrCall("get_cache_stats",
                       IF has_backend THEN merged
                       ELSE [base_stats EXCEPT !.status = "not_available"])
                    EXCEPT !.failed = fail]
    /\ UNCHANGED << Config, mgrVars, memVars, sqlVars, storeVars, now, touched, thrVars >>

\* CacheManager.health_check; connect_fails: sqlite3.connect(CACHE_PATH) raises
health_check(connect_fails) ==
    /\ MgrCallable
    /\ instance # 0
    /\ nops' = nops + 1
    /\ connect_fails => Config.ENABLE_CACHE /\ Config.CACHE_TYPE = "sqlite"
    /\ IF ~Config.ENABLE_CACHE
       THEN /\ last' = MgrCall("health_check",
                          [healthy |-> TRUE, message |-> Msg.disabled,
                           cache_type |-> Config.CACHE_TYPE])
            /\ UNCHANGED << memVars, path, touched >>
       ELSE IF Config.CACHE_TYPE = "sqlite"
       THEN /\ last' = MgrCall("health_check",
                          IF connect_fails
                          THEN [healthy |-> FALSE, message |-> Msg.check_failed_connect,
                                cache_type |-> Config.CACHE_TYPE]
                          ELSE [healthy |-> TRUE, message |-> Msg.sqlite_ok,
                                cache_type |-> Config.CACHE_TYPE])
            \* connecting creates an empty file where there is none
            /\ path' = IF ~connect_fails /\ path = "absent" THEN "empty" ELSE path
            /\ UNCHANGED << memVars, touched >>
       ELSE IF has_backend
       THEN LET w == MemUpdate(Mem, test_key, HealthValue, now)
                r == MemLookup(w.m, test_key, now)
            IN  IF w.raised
                THEN /\ SetMem(w.m)
                     /\ last' = [MgrCall("health_check",
                                    [healthy |-> FALSE, message |-> Msg.check_failed_text,
                                     cache_type |-> Config.CACHE_TYPE])
                                 EXCEPT !.evicted = w.evicted]
                     /\ UNCHANGED << path, touched >>
                ELSE /\ SetMem(r.m)
                     /\ last' = [MgrCall("health_check",
                                    IF r.ret = Some(HealthValue)
                                    THEN [healthy |-> TRUE, message |-> Msg.memory_ok,
                                          cache_type |-> Config.CACHE_TYPE]
                                    ELSE [healthy |-> FALSE, message |-> Msg.memory_abnormal,
                                          cache_type |-> Config.CACHE_TYPE])
                                 EXCEPT !.evicted = w.evicted]
                     /\ touched' = Touch(touched, test_key)
                     /\ UNCHANGED path
       ELSE /\ last' = MgrCall("health_check",
                          [healthy |-> FALSE, message |-> Msg.unknown_type,
                           cache_type |-> Config.CACHE_TYPE])
            /\ UNCHANGED << memVars, path, touched >>
    /\ UNCHANGED << Config, mgrVars, sqlVars, issued, now, thrVars >>

MgrTexts == Texts

NextMgr ==
    \/ \E outcome \in {None} \cup InitErrors : New(outcome)
    \/ \E k \in MgrKeys : RequestLookup(k)
    \/ \E k \in MgrKeys, v \in MgrTexts : RequestUpdate(k, v)
    \/ \E unlink_fails \in BOOLEAN : clear_cache(unlink_fails)
    \/ \E fail \in BOOLEAN : get_cache_stats(fail)
    \/ \E connect_fails \in BOOLEAN : health_check(connect_fails)

SpecMgr == InitMgr /\ [][NextMgr]_vars

----------------------------------------------------------------------------
(* Properties of the manager's administrative operations *)

ValidTypes == { "sqlite", "memory" }

\* C11: when the cache is enabled and Config.CACHE_TYPE names neither the
\* in-memory nor the durable backend, the constructed manager has recorded a
\* diagnostic in last_error, is not initialized and has installed no backend,
\* so that lookup and update behave as with the cache disabled
InvalidTypeRejected ==
    (instance # 0 /\ Config.ENABLE_CACHE /\ Config.CACHE_TYPE \notin ValidTypes) =>
        /\ llm_cache = "None"
        /\ objects[instance].last_error # None
        /\ ~objects[instance].cache_initialized

----------------------------------------------------------------------------
(* One durable store over several runs of the program: the storage engine
   may fail in any call, the process may end and a new one open the store *)

MaxStoreOps == 4

StoreConfigs ==
    { c \in Configs : c.ENABLE_CACHE /\ c.CACHE_TYPE = "sqlite" /\ c.CACHE_TTL = NoneTTL }

InitStore == InitFrom(StoreConfigs)

StoreCallable == llm_cache = "sqlite" /\ nops < MaxStoreOps

\* a storage error is possible in every call and certain once the database
\* file is unlinked
StoreFaults == IF detached THEN { TRUE } ELSE BOOLEAN

StoreLookup(k, fail) ==
    /\ StoreCallable
    /\ fail \in StoreFaults
    /\ LET r == DbLookup(rows, k, now, fail)
       IN  /\ rows' = r.rows
           /\ last' = Call("lookup", k, NoValue, 0, r)
           /\ touched' = IF r.hit THEN Touch(touched, k) ELSE touched
    /\ nops' = nops + 1
    /\ UNCHANGED << Config, mgrVars, memVars, trigger_max, storeVars, now, thrVars >>

StoreUpdate(k, v, fail) ==
    /\ StoreCallable
    /\ fail \in StoreFaults
    /\ LET r == DbUpdate(rows, trigger_max, k, v, now, fail)
       IN  /\ rows' = r.rows
           /\ last' = Call("update", k, v, 0, r)
           /\ touched' = IF fail THEN touched ELSE Touch(touched, k)
           /\ issued' = IF fail THEN issued ELSE Max(issued, new_rowid(rows))
    /\ nops' = nops + 1
    /\ UNCHANGED << Config, mgrVars, memVars, trigger_max, path, now, thrVars >>

StoreClear(fail) ==
    /\ StoreCallable
    /\ fail \in StoreFaults
    /\ LET r == DbClear(rows, fail)
       IN  /\ rows' = r.rows
           /\ last' = Call("clear", NoKey, NoValue, 0, r)
    /\ touched' = IF fail THEN touched ELSE << >>
    /\ nops' = nops + 1
    /\ UNCHANGED << Config, mgrVars, memVars, trigger_max, storeVars, now, thrVars >>

\* get_stats only reads
StoreGetStats(fail) ==
    /\ StoreCallable
    /\ last' = [MgrCall("get_stats", DbGetStats(rows, max_size, fail)) EXCEPT !.failed = fail]
    /\ nops' = nops + 1
    /\ UNCHANGED << Config, mgrVars, memVars, sqlVars, storeVars, now, touched, thrVars >>

\* the process ends and the program is started again, possibly with another
\* Config.CACHE_MAX_SIZE: the objects are gone, the file at CACHE_PATH stays
Restart(size) ==
    /\ instance # 0
    /\ nops < MaxStoreOps
    /\ nops' = nops + 1
    /\ Config' = [Config EXCEPT !.CACHE_MAX_SIZE = size]
    /\ instance' = 0
    /\ objects' = << >>
    /\ llm_cache' = "None"
    /\ built' = 0
    /\ SetMem(MemInit(1, NoneTTL))
    /\ rows' = IF path = "live" THEN rows ELSE {}
    /\ trigger_max' = IF path = "live" THEN trigger_max ELSE 0
    /\ issued' = IF path = "live" THEN issued ELSE 0
    /\ last' = [NoCall EXCEPT !.op = "restart", !.at = now]
    /\ UNCHANGED << path, now, touched, thrVars >>

NextStore ==
    \/ \E outcome \in {None} \cup InitErrors : New(outcome)
    \/ \E k \in Keys, fail \in BOOLEAN : StoreLookup(k, fail)
    \/ \E k \in Keys, v \in DbValues, fail \in BOOLEAN : StoreUpdate(k, v, fail)
    \/ \E fail \in BOOLEAN : StoreClear(fail)
    \/ \E fail \in BOOLEAN : StoreGetStats(fail)
    \/ \E size \in ConfigSizes : Restart(size)

SpecStore == InitStore /\ [][NextStore]_vars

----------------------------------------------------------------------------
(* Properties of the durable store *)

StoreOps == { "lookup", "update", "clear", "get_stats" }

\* C12: durable backend: a call of lookup, update, clear or get_stats in
\* which the storage engine fails raises nothing, leaves the rows, the
\* trigger and the installed backend as they were, returns a miss (lookup),
\* None (update, clear) or the stats type, max_size and status 'error: ...'
\* only (get_stats); the backend then still takes the next call
DurableErrorsContained ==
    [][ (llm_cache = "sqlite" /\ IsCall /\ last'.op \in StoreOps /\ last'.failed) =>
            /\ ~last'.raised
            /\ rows' = rows
            /\ trigger_max' = trigger_max
            /\ llm_cache' = "sqlite"
            /\ last'.op = "lookup" => last'.ret = None /\ ~last'.hit
            /\ last'.op \in { "update", "clear" } => last'.ret = None
            /\ last'.op = "get_stats" =>
                 /\ last'.ret # None
                 /\ DOMAIN last'.ret[1] = { "type", "max_size", "status" }
                 /\ last'.ret[1].type = "lru_sqlite"
                 /\ last'.ret[1].max_size = max_size
                 /\ last'.ret[1].status = "error: sqlite3.Error" ]_vars

\* a clear failed on a table with rows and the rows are still there
DurableErrorsWitness ==
    /\ llm_cache = "sqlite"
    /\ last.op = "clear"
    /\ last.failed
    /\ Cardinality(rows) = 2

\* a step that ends the process or opens the store in a new one
IsReopen == last'.op \in { "restart", "CacheManager" } /\ last' # last

\* C13: durable backend: ending the process and opening a backend on the same
\* store location changes no row, so every key that held a value before (its
\* update returned and it was not evicted, replaced or cleared since) is
\* looked up with that value afterwards, and no other key is found
DurableAcrossRestart ==
    [][ (IsReopen /\ (llm_cache = "sqlite" \/ llm_cache' = "sqlite")) =>
            \A k \in Keys :
                /\ DbLookup(rows', k, now', FALSE).ret = DbLookup(rows, k, now, FALSE).ret
                /\ k \in RowKeys(rows) =>
                     DbLookup(rows', k, now', FALSE).ret = Some(PlainStr(RowOf(rows, k).response)) ]_vars

\* a key written before a restart was found by the backend opened after it,
\* which was opened with another max_size than the one in the stored trigger
DurableAcrossRestartWitness ==
    /\ llm_cache = "sqlite"
    /\ last.op = "lookup"
    /\ last.hit
    /\ last.ret = Some(PlainStr("b"))
    /\ max_size # trigger_max
    /\ \A r \in rows : r.key = last.key => r.id = 1

\* C19: durable backend: the id of every row an update inserts is greater
\* than every id given to a row before, also after clear or after the row
\* with the largest id was replaced or evicted
RowIdsMonotonic ==
    [][ (llm_cache = "sqlite" /\ IsCall /\ last'.op = "update" /\ ~last'.failed) =>
            \A r \in rows' : r.key = last'.key => r.id > issued ]_vars

\* C14: clear_cache raises nothing and returns a dict with exactly success,
\* message and cache_type, whether the manager is disabled, active, failed
\* or not constructed yet and whether or not the store file exists; when it
\* reports success on an in-memory backend, that backend holds no entry
ClearCacheTotal ==
    last.op = "clear_cache" =>
        /\ ~last.raised
        /\ last.ret # None
        /\ DOMAIN last.ret[1] = { "success", "message", "cache_type" }
        /\ last.ret[1].success \in BOOLEAN
        /\ last.ret[1].message \in { Msg[f] : f \in DOMAIN Msg }
        /\ last.ret[1].cache_type = Config.CACHE_TYPE
        /\ (llm_cache = "memory" /\ last.ret[1].success) => cache = << >> /\ stats = ZeroStats

\* the manager failed to initialize its durable backend, the store file
\* existed and clear_cache removed it
ClearCacheWitness ==
    /\ last.op = "clear_cache"
    /\ last.ret[1].success
    /\ instance # 0
    /\ objects[instance].last_error = SetupError
    /\ llm_cache = "None"
    /\ path = "absent"

\* C16: health_check changes no cache content but the sentinel key: every
\* other entry of the in-memory backend is still there with the same value,
\* also when the backend was full, and no durable row is added, changed or
\* removed
HealthCheckFrame ==
    [][ (IsCall /\ last'.op = "health_check") =>
            /\ \A k \in KeySet(cache) \ { test_key } :
                 /\ HasKey(cache', k)
                 /\ EntryOf(cache', k).response = EntryOf(cache, k).response
            /\ rows' = rows ]_vars

\* C17: on an active manager with a working in-memory backend health_check
\* writes the sentinel, reads it back and reports healthy = true
HealthCheckMemoryHealthy ==
    (last.op = "health_check" /\ Config.CACHE_TYPE = "memory" /\ llm_cache = "memory") =>
        /\ last.ret[1].healthy
        /\ HasKey(cache, test_key)

\* C18: get_cache_stats raises nothing and always returns initialized,
\* last_error and init_attempts of the manager; the stats a backend reports
\* are merged in as size, hit_rate and details; when the backend's get_stats
\* failed, status is a string carrying the error; without a backend status
\* is 'not_available'
ManagerStats ==
    last.op = "get_cache_stats" =>
        LET d == last.ret[1]
            self == objects[instance]
        IN  /\ ~last.raised
            /\ { "status", "type", "initialized", "last_error", "init_attempts" } \subseteq DOMAIN d
            /\ d.initialized = self.cache_initialized
            /\ d.last_error = self.last_error
            /\ d.init_attempts = self.init_attempts
            /\ (has_backend /\ ~last.failed) =>
                 /\ { "size", "hit_rate", "details" } \subseteq DOMAIN d
                 /\ d.size = << d.details.current_size, Config.CACHE_MAX_SIZE >>
                 /\ d.hit_rate = d.details.hit_rate
                 /\ d.status = "active"
            /\ (has_backend /\ last.failed) => d.status = "error: sqlite3.Error"
            /\ ~has_backend => d.status = "not_available"

\* each backend holds at most one entry per (prompt, llm_string) pair
UniqueKeys ==
    /\ \A i, j \in 1..Len(cache) : cache[i].key = cache[j].key => i = j
    /\ \A r, q \in rows : r.key = q.key => r = q

\* the values held under each pair before and after a step, None when absent
MemValue(c, k) == IF HasKey(c, k) THEN Some(EntryOf(c, k).response) ELSE None

DbValue(R, k) == IF k \in RowKeys(R) THEN Some(RowOf(R, k).response) ELSE None

\* a call touches the value of no pair but the one an update is given: an
\* update(k, v) that stored leaves v under k; under every other pair, and
\* under every pair in any other call, a value present afterwards is the one
\* present before; a lookup(k) that hits returns the value held under exactly
\* k and is a miss when nothing is held under k, whatever is held under the
\* same prompt with another llm_string
IsolatedStep ==
    IsCall =>
        LET k == last'.key
            stored == last'.op = "update" /\ ~last'.raised /\ ~last'.failed
        IN  /\ \A q \in Keys :
                 (q # k \/ ~stored) =>
                    /\ MemValue(cache', q) \in { None, MemValue(cache, q) }
                    /\ DbValue(rows', q) \in { None, DbValue(rows, q) }
            /\ (stored /\ llm_cache = "memory") => MemValue(cache', k) = Some(last'.arg.text)
            /\ (stored /\ llm_cache = "sqlite") => DbValue(rows', k) = Some(last'.arg.text)
            /\ (last'.op = "lookup" /\ llm_cache = "memory") =>
                 /\ last'.hit => last'.ret = Some(Generation(MemValue(cache, k)[1], "None"))
                 /\ ~last'.hit => last'.ret = None
                 /\ MemValue(cache, k) = None => ~last'.hit
            /\ (last'.op = "lookup" /\ llm_cache = "sqlite") =>
                 /\ last'.hit => last'.ret = Some(PlainStr(DbValue(rows, k)[1]))
                 /\ ~last'.hit => last'.ret = None
                 /\ DbValue(rows, k) = None => ~last'.hit

\* C20: in every reachable state each backend holds at most one entry per
\* (prompt, llm_string) pair, and a lookup returns only the value last stored
\* by update under exactly that pair; the same prompt under another
\* llm_string is a miss
KeyIsolation == []UniqueKeys /\ [][IsolatedStep]_vars

\* (p1, m1) holds a value and the lookup of (p1, m2) was a miss
KeyIsolationWitness ==
    /\ last.op = "lookup"
    /\ last.key = K3
    /\ ~last.hit
    /\ \/ llm_cache = "memory" /\ HasKey(cache, K1)
       \/ llm_cache = "sqlite" /\ K1 \in RowKeys(rows)

----------------------------------------------------------------------------
(* The in-memory backend under one caller, with time and expiry *)

MaxMemOps == 4

\* two prompts under one llm_string
MemKeys == { K1, K2 }

MemConfigs == { c \in Configs : c.ENABLE_CACHE /\ c.CACHE_TYPE = "memory" }

InitMem == InitFrom(MemConfigs)

NextMem ==
    \/ New(None)
    \/ /\ nops < MaxMemOps
       /\ \/ \E k \in MemKeys : Lookup(k)
          \/ \E k \in MemKeys, v \in MemValues : Update(k, v)
          \/ Clear
          \/ \E n \in ResizeSizes : Resize(n)
    \/ Tick

SpecMem == InitMem /\ [][NextMem]_vars

\* the step is a completed update of a key the map held
UpdatesPresentKey ==
    /\ IsCall
    /\ last'.op = "update"
    /\ ~last'.raised
    /\ \E i \in 1..Len(cache) : cache[i].key = last'.key

\* C21: an in-memory update of a key that is already present replaces the
\* value, moves the key to the most recently used end with created_at =
\* last_accessed = now, leaves the size unchanged, evicts no other entry and
\* leaves the evictions counter unchanged, also when the cache is full
UpdatePresentKey ==
    [][ UpdatesPresentKey =>
          LET k == last'.key
              others == SelectSeq(cache, LAMBDA e : e.key # k)
          IN  /\ cache' = Append(others, [key |-> k, response |-> last'.arg.text,
                                          created_at |-> now, last_accessed |-> now])
              /\ Len(cache') = Len(cache)
              /\ last'.evicted = << >>
              /\ stats'.evictions = stats.evictions
              /\ max_size' = max_size ]_vars

\* a full map of two entries took an update at a later time without evicting:
\* the key was present, its entry is the newest and carries the new time
UpdatePresentKeyWitness ==
    /\ llm_cache = "memory"
    /\ last.op = "update"
    /\ ~last.raised
    /\ last.evicted = << >>
    /\ stats.evictions = 0
    /\ max_size = 2
    /\ Len(cache) = 2
    /\ now > 0
    /\ cache[2].key = last.key
    /\ cache[2].created_at = now
    /\ cache[1].created_at < now
    /\ nops = 3

\* C22: a successful in-memory lookup moves the entry to the most recently
\* used end, sets last_accessed to now, increments hits only and leaves value
\* and created_at unchanged; so a present entry whose last successful lookup
\* or insert is at most ttl old is found, whatever its created_at
LookupHitRefreshes ==
    [][ (IsCall /\ last'.op = "lookup" /\ HasKey(cache, last'.key)) =>
          LET k == last'.key
              e == EntryOf(cache, k)
              others == SelectSeq(cache, LAMBDA x : x.key # k)
          IN  /\ (ttl = NoneTTL \/ now - e.last_accessed <= ttl) => last'.hit
              /\ last'.hit =>
                    /\ cache' = Append(others, [key |-> k, response |-> e.response,
                                                created_at |-> e.created_at,
                                                last_accessed |-> now])
                    /\ stats' = [stats EXCEPT !.hits = @ + 1]
                    /\ last'.ret = Some(Generation(e.response, "None"))
                    /\ max_size' = max_size /\ ttl' = ttl ]_vars

\* with ttl = 1 an entry created two time units ago was found, because it was
\* also found one unit ago; it now sits behind a younger entry's position
LookupHitWitness ==
    /\ llm_cache = "memory"
    /\ ttl = 1
    /\ last.op = "lookup"
    /\ last.hit
    /\ now = 2
    /\ stats.hits = 2
    /\ Len(cache) >= 1
    /\ cache[Len(cache)].key = last.key
    /\ cache[Len(cache)].created_at = 0
    /\ cache[Len(cache)].last_accessed = 2

\* C23 as the specification states it: an update that follows a resize which
\* had to shrink the map starts above the bound and evicts more than once
UpdateAfterShrinkEvictsMany ==
    [][ (IsCall /\ last'.op = "update" /\ ~HasKey(cache, last'.key)
          /\ last.op = "resize" /\ last.evicted # << >>) =>
          (Len(cache) > max_size /\ Len(last'.evicted) > 1) ]_vars

\* C23, amended: no update starts with more entries than max_size, and no update
\* evicts more than one entry in one call: resize has already evicted down to
\* the new bound
UpdateEvictsAtMostOne ==
    [][ (IsCall /\ last'.op = "update") =>
          /\ Len(cache) <= max_size
          /\ Len(last'.evicted) <= 1
          /\ stats'.evictions <= stats.evictions + 1 ]_vars

\* two entries, a resize to one, then the update of an absent key: it evicted
\* exactly the one entry the resize had left
UpdateAfterShrinkWitness ==
    /\ llm_cache = "memory"
    /\ Config.CACHE_MAX_SIZE = 2
    /\ max_size = 1
    /\ last.op = "update"
    /\ ~last.raised
    /\ Len(last.evicted) = 1
    /\ stats.evictions = 2
    /\ Len(cache) = 1

\* the counters change with the calls: a lookup adds one to hits + misses,
\* update and resize add the entries they removed for capacity to evictions,
\* clear empties the map and zeroes the four counters in one step
CounterStep ==
    IsCall =>
        /\ last'.op = "lookup" =>
              /\ stats'.hits + stats'.misses = stats.hits + stats.misses + 1
              /\ stats'.hits = stats.hits + (IF last'.hit THEN 1 ELSE 0)
              /\ stats'.evictions = stats.evictions
              /\ stats'.expired - stats.expired \in { 0, 1 }
              /\ stats'.expired - stats.expired <= stats'.misses - stats.misses
        /\ last'.op \in { "update", "resize" } =>
              /\ stats'.hits = stats.hits /\ stats'.misses = stats.misses
              /\ stats'.expired = stats.expired
              /\ stats'.evictions = stats.evictions + Len(last'.evicted)
              /\ Len(last'.evicted) = Len(cache) + (IF last'.op = "update" /\ ~last'.raised
                                                    THEN 1 ELSE 0)
                                                 - (IF last'.op = "update" /\ HasKey(cache, last'.key)
                                                    THEN 1 ELSE 0)
                                                 - Len(cache')
        /\ last'.op = "clear" => (cache' = << >> /\ stats' = ZeroStats)

\* C27 as the specification states it: expired <= misses and hit_rate exactly
\* hits / (hits + misses), 0 without lookups
CountersExactRate ==
    llm_cache = "memory" =>
        LET r == MemGetStats(Mem).hit_rate
            total == stats.hits + stats.misses
        IN  /\ stats.expired <= stats.misses
            /\ IF total = 0 THEN r = 0 ELSE r * total = 10000 * stats.hits

\* C27, amended: hits + misses counts the lookups since construction or the last
\* clear, expired <= misses, evictions counts the entries update and resize
\* removed for capacity, clear zeroes the counters in the step that empties
\* the map; hit_rate is 0 without lookups and otherwise hits / (hits + misses)
\* rounded to four decimal places (reported here in ten-thousandths)
CountersConsistent ==
    /\ [](llm_cache = "memory" =>
            LET r == MemGetStats(Mem).hit_rate
                total == stats.hits + stats.misses
            IN  /\ stats.expired <= stats.misses
                /\ IF total = 0 THEN r = 0
                   ELSE /\ 2 * total * r - total <= 2 * 10000 * stats.hits
                        /\ 2 * 10000 * stats.hits <= 2 * total * r + total)
    /\ [][CounterStep]_vars

\* two hits and one miss by expiry: hit_rate is reported as 0.6667
CountersWitness ==
    /\ llm_cache = "memory"
    /\ stats.hits = 2
    /\ stats.misses = 1
    /\ stats.expired = 1
    /\ MemGetStats(Mem).hit_rate = 6667
    /\ last.op = "lookup"

\* C30: an in-memory update that raises while building the new entry leaves
\* the map, the recency order and the counters exactly as before the call
UpdateAllOrNothing ==
    [][ (IsCall /\ last'.op = "update" /\ last'.raised) =>
          (cache' = cache /\ stats' = stats /\ max_size' = max_size) ]_vars

\* C28: a durable backend opened with max_size = m on a store an earlier
\* instance created with another max_size holds at most m rows after every
\* completed update
DurableBoundFollowsConfig ==
    (llm_cache = "sqlite" /\ last.op = "update" /\ ~last.failed) =>
        Cardinality(rows) <= max_size

\* the operations an operator calls on the manager
AdminOps == { "clear_cache", "get_cache_stats", "health_check" }

\* C29: once the manager is constructed, and after any sequence of
\* clear_cache, get_cache_stats and health_check, initialized holds exactly
\* when a backend is installed; a disabled cache or a failed initialization
\* leaves initialized false and no backend; the three operations change
\* neither initialized nor the attempt counter nor last_error
ManagerStateConsistent ==
    /\ [](instance # 0 =>
            LET self == objects[instance]
            IN  /\ self.cache_initialized <=> has_backend
                /\ (~Config.ENABLE_CACHE \/ self.last_error # None) =>
                      (~self.cache_initialized /\ ~has_backend)
                /\ (Config.ENABLE_CACHE /\ self.last_error = None) => self.cache_initialized)
    /\ [][ (IsCall /\ last'.op \in AdminOps) =>
              (objects' = objects /\ instance' = instance /\ llm_cache' = llm_cache
               /\ built' = built) ]_vars

\* clear_cache has removed the store file of an initialized durable backend,
\* then health_check ran: the backend is still installed and initialized
ManagerStateWitness ==
    /\ instance # 0
    /\ llm_cache = "sqlite"
    /\ objects[instance].cache_initialized
    /\ objects[instance].init_attempts = 1
    /\ last.op = "health_check"
    /\ detached
    /\ nops >= 2

----------------------------------------------------------------------------
(* Several threads on one LRUInMemoryCache, scheduled fairly *)

\* the steps of thread t inside a call, the lock acquisition excepted
Body(t) ==
    \/ UpdateNow(t)
    \/ Release(t)
    \/ LookupCheck(t)
    \/ LookupExpired(t)
    \/ LookupDel(t)
    \/ LookupCountExpired(t)
    \/ LookupCountMiss(t)
    \/ LookupMove(t)
    \/ LookupStamp(t)
    \/ LookupHit(t)
    \/ UpdateDel(t)
    \/ UpdateLoop(t)
    \/ UpdateCount(t)
    \/ UpdateInsert(t)
    \/ ClearMap(t)
    \/ ClearStats(t)
    \/ ResizeSet(t)
    \/ ResizeLoop(t)
    \/ ResizeCount(t)
    \/ StatsRate(t)
    \/ StatsSize(t)

MaxFairOps == 2

\* the backends of InitConc that expire entries
InitFair == InitConc /\ Config.CACHE_TTL = 1

\* the calls: a lookup of the key the backend may hold, an update of another
\* key, clear, a shrinking resize and get_stats
NextFair ==
    \/ \E t \in Threads :
        \/ /\ nops < MaxFairOps
           /\ \/ CallLookup(t, K1)
              \/ CallUpdate(t, K2, Generation("a", "None"))
              \/ CallClear(t)
              \/ CallResize(t, 0)
              \/ CallGetStats(t)
        \/ Acquire(t)
        \/ Body(t)
    \/ TickConc

\* every thread that can take a step takes one, and a thread that can take
\* the lock again and again gets it
SpecFair ==
    /\ InitFair /\ [][NextFair]_vars
    /\ \A t \in Threads : WF_vars(Body(t)) /\ SF_vars(Acquire(t))

\* the loop iterations of the call thread t is in, and their bound: the size
\* when the call took the lock, less the bound in force, plus one
LoopBounded(t) ==
    LET bound == IF local[t].op = "resize" THEN clamp_size(local[t].n) ELSE max_size
        most == Max(0, Len(lin[t].cache) - bound + 1)
    IN  (InCriticalSection(t) /\ local[t].op \in { "update", "resize" }) =>
            Len(local[t].evicted) <= most

\* C24: the eviction loops of update and resize end after at most
\* (size - bound + 1) iterations, and under fair scheduling every call a
\* thread has issued takes the lock and returns
CallsTerminate ==
    /\ [](\A t \in Threads : LoopBounded(t))
    /\ \A t \in Threads : (pc[t] # "idle") ~> (pc[t] = "idle")

\* an update into a full map has run its loop once, which is the bound, and
\* holds the lock while the other thread waits with a resize
CallsTerminateWitness ==
    \E t, u \in Threads :
        /\ pc[t] = "update_count"
        /\ Len(local[t].evicted) = 1
        /\ Len(lin[t].cache) = max_size
        /\ pc[u] = "acquire"
        /\ local[u].op = "resize"

\* C25: also with concurrent update and lookup calls, whenever no call is
\* inside its body the entries' last_accessed values are non-decreasing from
\* the least recently used end to the most recently used end, so the entry an
\* eviction removes has the oldest last_accessed
RecencyMatchesTimestamps ==
    lock.owner = 0 =>
        /\ \A i, j \in 1..Len(cache) :
              i < j => cache[i].last_accessed <= cache[j].last_accessed
        /\ \A i \in 1..Len(cache) : cache[1].last_accessed <= cache[i].last_accessed

----------------------------------------------------------------------------
(* Several threads call one LRUSQLiteCache.  The connection is opened with
   check_same_thread = False and shared; "with self.conn" commits or rolls
   back on exit and excludes nobody, so the calls interleave statement by
   statement.  Every statement runs on the one connection and sees what the
   statements before it wrote, committed or not. *)

MaxDbOps == 2

\* the stores the threads start on: just created at time 0, or given two rows
\* by update(K1, "a") at time 0 and update(K2, "b") at time 1
DbStarts(bound) ==
    { [rows |-> create_table({}), now |-> 0],
      [rows |-> DbUpdate(DbUpdate(create_table({}), bound, K1, PlainStr("a"), 0, FALSE).rows,
                         bound, K2, PlainStr("b"), 1, FALSE).rows,
       now |-> 1] }

InitDb ==
    /\ Config \in StoreConfigs
    /\ instance = 1
    /\ objects = << init_succeeded(InitializedObject) >>
    /\ llm_cache = "sqlite"
    /\ built = 1
    /\ cache = << >>
    /\ max_size = clamp_size(Config.CACHE_MAX_SIZE)
    /\ ttl = NoneTTL
    /\ stats = ZeroStats
    /\ trigger_max = create_trigger(0, clamp_size(Config.CACHE_MAX_SIZE))
    /\ \E st \in DbStarts(trigger_max) :
         /\ rows = st.rows
         /\ now = st.now
         /\ issued = Cardinality(st.rows)
    /\ path = connect("absent", None)
    /\ last = NoCall
    /\ touched = << >>
    /\ nops = 0
    /\ pc = [t \in Threads |-> "idle"]
    /\ local = [t \in Threads |-> NoLocals]
    /\ lock = [owner |-> 0, count |-> 0]
    /\ lin = [t \in Threads |-> {}]

dbFrame == << Config, mgrVars, memVars, trigger_max, path, last, lock >>

\* a statement that wrote, as the connection executed it
Statement(op, k, v) == [op |-> op, key |-> k, arg |-> v, at |-> now]

\* a thread starts lookup, update or clear: the first statement comes next
SqlBegin(t, op, k, v) ==
    /\ pc[t] = "idle"
    /\ nops < MaxDbOps
    /\ nops' = nops + 1
    /\ local' = [local EXCEPT ![t] = [NoLocals EXCEPT !.op = op, !.key = k, !.arg = v]]
    /\ Goto(t, CASE op = "lookup" -> "select" [] op = "update" -> "insert"
                  [] op = "clear" -> "delete")
    /\ UNCHANGED << dbFrame, rows, issued, now, touched, lin >>

\* lookup: SELECT response ... ; cursor.fetchone()
SqlSelect(t) ==
    /\ pc[t] = "select"
    /\ lin' = [lin EXCEPT ![t] = rows]
    /\ IF local[t].key \in RowKeys(rows)
       THEN /\ local' = [local EXCEPT ![t].hit = TRUE,
                                      ![t].ret = Some(PlainStr(RowOf(rows, local[t].key).response)),
                                      ![t].at = now,
                                      ![t].tmp = Len(touched)]
            /\ Goto(t, "refresh")
       ELSE /\ UNCHANGED local
            /\ Goto(t, "return")
    /\ UNCHANGED << dbFrame, rows, issued, now, touched, nops >>

\* UPDATE lru_cache SET last_accessed = CURRENT_TIMESTAMP WHERE prompt = ? ...
sql_refresh(R, k, clock) ==
    { IF r.key = k THEN [r EXCEPT !.last_accessed = clock] ELSE r : r \in R }

\* lookup: the UPDATE of last_accessed; commit
SqlRefresh(t) ==
    /\ pc[t] = "refresh"
    /\ rows' = sql_refresh(rows, local[t].key, now)
    /\ touched' = Append(touched, Statement("refresh", local[t].key, NoValue))
    /\ Goto(t, "return")
    /\ UNCHANGED << dbFrame, issued, now, nops, local, lin >>

\* update: INSERT OR REPLACE ..., the trigger fires inside the statement; commit
SqlInsert(t) ==
    /\ pc[t] = "insert"
    /\ lin' = [lin EXCEPT ![t] = rows]
    /\ LET r == DbUpdate(rows, trigger_max, local[t].key, local[t].arg, now, FALSE)
       IN  /\ rows' = r.rows
           /\ SetLocal(t, "evicted", r.evicted)
    /\ issued' = Max(issued, new_rowid(rows))
    /\ touched' = Append(touched, Statement("insert", local[t].key, local[t].arg))
    /\ Goto(t, "return")
    /\ UNCHANGED << dbFrame, now, nops >>

\* clear: DELETE FROM lru_cache; commit
SqlDelete(t) ==
    /\ pc[t] = "delete"
    /\ lin' = [lin EXCEPT ![t] = rows]
    /\ rows' = DbClear(rows, FALSE).rows
    /\ touched' = Append(touched, Statement("delete", NoKey, NoValue))
    /\ Goto(t, "return")
    /\ UNCHANGED << dbFrame, issued, now, nops, local >>

\* the call returns to its thread
SqlReturn(t) ==
    /\ pc[t] = "return"
    /\ local' = [local EXCEPT ![t] = NoLocals]
    /\ lin' = [lin EXCEPT ![t] = {}]
    /\ Goto(t, "idle")
    /\ UNCHANGED << dbFrame, rows, issued, now, touched, nops >>

NextDb ==
    \/ \E t \in Threads :
        \/ \E k \in Keys : SqlBegin(t, "lookup", k, NoValue)
        \/ \E k \in Keys, v \in DbValues : SqlBegin(t, "update", k, v)
        \/ SqlBegin(t, "clear", NoKey, NoValue)
        \/ SqlSelect(t)
        \/ SqlRefresh(t)
        \/ SqlInsert(t)
        \/ SqlDelete(t)
        \/ SqlReturn(t)
    \/ TickConc

SpecDb == InitDb /\ [][NextDb]_vars

\* the rows after one statement of another call
ApplyStatement(R, o) ==
    CASE o.op = "insert" -> DbUpdate(R, trigger_max, o.key, o.arg, o.at, FALSE).rows
      [] o.op = "delete" -> DbClear(R, FALSE).rows
      [] o.op = "refresh" -> sql_refresh(R, o.key, o.at)

RECURSIVE Replay(_, _)
\* the rows after a sequence of statements
Replay(R, ops) == IF ops = << >> THEN R ELSE Replay(ApplyStatement(R, Head(ops)), Tail(ops))

\* what callers can tell of the rows: the values under the keys and the
\* order in which the rows would be evicted
Observable(R) == [values |-> { << r.key, r.response >> : r \in R }, order |-> RowsInOrder(R)]

\* thread t's lookup, which ends with this step, can be placed as a whole
\* before, between or after the statements other calls ran since its SELECT
LookupSequential(t) ==
    LET between == SubSeq(touched, local[t].tmp + 1, Len(touched))
        n == Len(between)
    IN  \E p \in 0..n, c \in local[t].at..now :
            /\ p >= 1 => between[p].at <= c
            /\ p < n => c <= between[p + 1].at
            /\ LET e == DbLookup(Replay(lin[t], SubSeq(between, 1, p)), local[t].key, c, FALSE)
               IN  /\ e.ret = local[t].ret
                   /\ e.hit = local[t].hit
                   /\ Observable(Replay(e.rows, SubSeq(between, p + 1, n))) = Observable(rows')

\* C26: the durable calls of concurrent threads are atomic units: when a
\* lookup has refreshed last_accessed, its result and the rows with their
\* eviction order are those of the lookup run as a whole before or after the
\* statements of the other calls; no update, eviction or clear of another
\* thread took effect between its read and its refresh
DurableCallsSequential ==
    [][ \A t \in Threads :
          (pc[t] = "refresh" /\ pc'[t] = "return") => LookupSequential(t) ]_vars

----------------------------------------------------------------------------
(* One caller: the manager on the durable backend, requests, clear_cache
   and restarts of the program *)

NextClear ==
    \/ New(None)
    \/ \E k \in MgrKeys : RequestLookup(k)
    \/ \E k \in MgrKeys, v \in MgrTexts : RequestUpdate(k, v)
    \/ clear_cache(FALSE)
    \/ \E size \in ConfigSizes : Restart(size)

SpecClear == InitStore /\ [][NextClear]_vars

\* clear_cache has removed the store file under the installed durable backend
ClearedUnderBackend == llm_cache = "sqlite" /\ path = "absent"

\* after a successful clear_cache a lookup on the active backend misses every
\* key stored before the clear
MissAfterClear ==
    [][ (IsCall /\ last'.op = "lookup" /\ ClearedUnderBackend) => ~last'.hit ]_vars

\* C31: after clear_cache returned success = true for the durable backend, a
\* lookup on the active backend misses every key stored before the clear, and
\* a value a later update stored is in the store a backend opened after a
\* restart finds at the configured location
ClearThenStoreSurvives ==
    [][ /\ (IsCall /\ last'.op = "lookup" /\ ClearedUnderBackend) => ~last'.hit
        /\ (IsCall /\ last'.op = "restart" /\ last.op = "update" /\ ~last.raised
              /\ ClearedUnderBackend) =>
              \E r \in rows' : r.key = last.key /\ r.response = last.arg.text ]_vars

====
